---- MODULE Spec2Model ----
(***************************************************************************)
(* Vura wall-space geometry: a model of the perspective transformer        *)
(* (perspectiveCorrection.ts), of the LayoutEngine statics (layoutEngine,  *)
(* src/unnamed/part_004) and of the page component that composes them      *)
(* (src/vura/app/page.tsx and its later revision src/unnamed/part_001).    *)
(*                                                                         *)
(* JavaScript numbers are modelled as exact rationals <<n, d>> in lowest   *)
(* terms with d > 0, extended with the three non-finite IEEE values        *)
(* NaN = <<0,0>>, +Infinity = <<1,0>> and -Infinity = <<-1,0>>, so that a  *)
(* division by zero yields what the code yields and not an error.          *)
(* Rounding and the sign of zero are not modelled there; the two unit      *)
(* conversions, whose contract is an exact equality, are also modelled on  *)
(* IEEE 754 binary64 values with their rounding.                           *)
(***************************************************************************)
EXTENDS Integers, Sequences, FiniteSets, TLC

VARIABLES
  \* --- PerspectiveTransformer (perspectiveCorrection.ts) ---
  src,            \* constructor argument src: 4 points
  dst,            \* constructor argument dst: 4 points
  matrix,         \* this.matrix (9 numbers) or None before construction
  inverseMatrix,  \* this.inverseMatrix
  thrown,         \* name of the error the constructor raised, "none" if none
  hpc,            \* "new" -> "built" -> "flat" -> "back"
  pIn,            \* the point last given to toFlat
  pFlat,          \* the result of that toFlat
  pBack,          \* the result of toDistorted applied to pFlat
  \* --- LayoutEngine statics called on their own (part_004) ---
  heap,           \* object heap: reference -> array of references | piece record
  items,          \* reference of the input array
  itemsBefore,    \* the input array and its elements as they were before the call
  calls,          \* the calls made so far: <<[op, args, ret], ...>>
  \* --- VuraApp, the page component (page.tsx, part_001) ---
  page,           \* the revision that runs: "page.tsx" or "part_001"
  hasStarted,     \* useState hasStarted; the wall container is mounted while TRUE
  recentRooms,    \* useState recentRooms: the rows of GET /api/room
  db,             \* the database: the rows of the tables rooms and art_pieces
  saves,          \* history: what the page held at each saveRoom that succeeded
  wallImage,      \* useState wallImage: a url, None (null) or Undefined
  loading,        \* urls given to an Image whose onload is still to fire
  wallDimensions, \* useState wallDimensions: <<width, height>>
  container,      \* <<clientWidth, clientHeight>> of the wall container
  ppi,            \* useState ppi
  floorY,         \* useState floorY
  calibratedFor,  \* history: the wall image ppi and floorY were set for, None if unset
  isCalibrating,  \* useState isCalibrating
  artPieces,      \* useState artPieces
  gridVariant,    \* useState gridVariant
  gridCalls,      \* history: the variant of each call of arrangeGrid by applyGrid
  mosaicVariant,  \* useState mosaicVariant
  scan,           \* the closure of a running handleSuggestSpot, None if none
  upload,         \* the closure of a running ArtUploader.handleFileChange, None if none
  isScanningRoom, \* useState isScanningRoom
  rendered,       \* what the last render computed for the labels, None if no label
  last,           \* what the last handler computed and whether it alerted
  clock,          \* Date.now(); every step of the page takes time
  \* --- CalibrationModal (CalibrationModal.tsx, the component of lines 1-519) ---
  wallImageDimensions, \* prop wallImageDimensions: <<width, height>>
  step,           \* useState step
  method,         \* useState method, "null" for null
  standardObjectType, \* useState standardObjectType, "null" for null
  lineLengthPx,   \* useState lineLengthPx
  realLengthInches, \* useState realLengthInches: the text of the input
  modalFloorY,    \* useState floorY of the modal
  lengthAlert,    \* whether the last handler alerted "Please enter a valid length"
  trail,          \* history: the values step has taken, oldest first
  onSaveCalls,    \* history: the calls of prop onSave
  closed,         \* whether prop onClose has been called
  \* --- ObjectDetection (objectDetection.ts) ---
  model,          \* the module's model: None (null) or the loaded model
  isLoading,      \* the module's isLoading
  tasks,          \* the calls of loadModel and detect that were made, in order
  loads           \* history: how often a loaded model was assigned to model

hvars == <<src, dst, matrix, inverseMatrix, thrown, hpc, pIn, pFlat, pBack>>
evars == <<heap, items, itemsBefore, calls>>
avars == <<page, hasStarted, recentRooms, db, saves, wallImage, loading, wallDimensions,
           container, ppi, floorY, calibratedFor, isCalibrating, artPieces, gridVariant,
           gridCalls, mosaicVariant, scan, upload, isScanningRoom, rendered, last, clock>>
mvars == <<wallImageDimensions, step, method, standardObjectType, lineLengthPx,
           realLengthInches, modalFloorY, lengthAlert, trail, onSaveCalls, closed>>
dvars == <<model, isLoading, tasks, loads>>
xvars == <<mvars, dvars>>
vars == <<hvars, evars, avars, xvars>>

None == <<>>

-----------------------------------------------------------------------------
(* Bounds of the model.                                                    *)

QuadSize == 2     \* side of the base square the quadrilaterals are skewed from
MaxSkew == 2      \* largest skew of a corner; QuadSize makes the quad degenerate
MaxCoord == 2     \* points given to toFlat lie on the grid 0..MaxCoord squared
MaxItems == 5     \* longest array given to a layout
MaxVariant == 2   \* largest variant number given to arrangeGrid / arrangeMosaic
MaxCalls == 2     \* unit conversions made in a row
MaxSteps == 7     \* steps of a session of the page
MaxPieces == 2    \* pieces on the wall

-----------------------------------------------------------------------------
(* JavaScript number arithmetic.                                           *)

Abs(n) == IF n < 0 THEN -n ELSE n
Sgn(n) == IF n > 0 THEN 1 ELSE IF n < 0 THEN -1 ELSE 0

RECURSIVE Gcd(_, _)
Gcd(a, b) == IF b = 0 THEN a ELSE Gcd(b, a % b)

NaN == <<0, 0>>
PosInf == <<1, 0>>
NegInf == <<-1, 0>>

Norm(n, d) ==
  IF d = 0 THEN <<Sgn(n), 0>>
  ELSE LET g == Gcd(Abs(n), Abs(d))
           s == IF d < 0 THEN -1 ELSE 1
       IN <<s * (n \div g), s * (d \div g)>>

Num(n) == <<n, 1>>
Frac(n, d) == Norm(n, d)
IsFinite(a) == a[2] # 0
IsNaN(a) == a = NaN

FNeg(a) == <<-a[1], a[2]>>

FAdd(a, b) ==
  IF a[2] # 0 /\ b[2] # 0
  THEN LET g == Gcd(a[2], b[2])
       IN Norm(a[1] * (b[2] \div g) + b[1] * (a[2] \div g), (a[2] \div g) * b[2])
  ELSE IF IsNaN(a) \/ IsNaN(b) THEN NaN
  ELSE IF a[2] = 0 /\ b[2] = 0 THEN (IF a[1] = b[1] THEN a ELSE NaN)
  ELSE IF a[2] = 0 THEN a ELSE b

FSub(a, b) == FAdd(a, FNeg(b))

FMul(a, b) ==
  IF a[2] # 0 /\ b[2] # 0
  THEN LET g1 == Gcd(Abs(a[1]), b[2])
           g2 == Gcd(Abs(b[1]), a[2])
       IN <<(a[1] \div g1) * (b[1] \div g2), (a[2] \div g2) * (b[2] \div g1)>>
  ELSE IF IsNaN(a) \/ IsNaN(b) THEN NaN
  ELSE <<Sgn(a[1]) * Sgn(b[1]), 0>>

FDiv(a, b) ==
  IF a[2] # 0 /\ b[2] # 0 /\ b[1] # 0
  THEN FMul(a, IF b[1] < 0 THEN <<-b[2], -b[1]>> ELSE <<b[2], b[1]>>)
  ELSE IF IsNaN(a) \/ IsNaN(b) THEN NaN
  ELSE IF b[2] = 0 THEN (IF a[2] = 0 THEN NaN ELSE Num(0))
  ELSE IF b[1] = 0 THEN <<Sgn(a[1]), 0>>
  ELSE <<Sgn(a[1]) * Sgn(b[1]), 0>>

FAbs(a) == <<Abs(a[1]), a[2]>>

\* a > b; every comparison with NaN is false
FGt(a, b) ==
  IF a[2] # 0 /\ b[2] # 0 THEN a[1] * b[2] > b[1] * a[2]
  ELSE IF IsNaN(a) \/ IsNaN(b) THEN FALSE
  ELSE IF a[2] = 0 /\ b[2] = 0 THEN a[1] > b[1]
  ELSE IF a[2] = 0 THEN a[1] > 0 ELSE b[1] < 0

FLt(a, b) == FGt(b, a)

\* Math.max(a, b): NaN if either is NaN
FMax(a, b) == IF IsNaN(a) \/ IsNaN(b) THEN NaN ELSE IF FGt(b, a) THEN b ELSE a

-----------------------------------------------------------------------------
(* PerspectiveTransformer.                                                 *)

N == 8
Mk8(F(_)) == <<F(1), F(2), F(3), F(4), F(5), F(6), F(7), F(8)>>

\* a pivot search that never looks below the diagonal
PivotFirstRow(A, i, j, maxRow) == i

\* the pivot search of solveGaussian: the first row, from i on, whose entry
\* in column i has the largest absolute value
RECURSIVE PivotRow(_, _, _, _)
PivotRow(A, i, j, maxRow) ==
  IF j > N THEN maxRow
  ELSE PivotRow(A, i, j + 1,
                IF FGt(FAbs(A[j][i]), FAbs(A[maxRow][i])) THEN j ELSE maxRow)

Swap(s, i, m) == [s EXCEPT ![i] = s[m], ![m] = s[i]]

\* one pass of the outer loop of solveGaussian: pivot, swap, eliminate
ElimStep(S, i) ==
  LET m == PivotRow(S.A, i, i + 1, i)
      A1 == Swap(S.A, i, m)
      B1 == Swap(S.B, i, m)
      fac == Mk8(LAMBDA j : IF j > i THEN FDiv(A1[j][i], A1[i][i]) ELSE Num(0))
      A2 == Mk8(LAMBDA j : IF j > i
                  THEN Mk8(LAMBDA k : IF k >= i
                                 THEN FSub(A1[j][k], FMul(fac[j], A1[i][k]))
                                 ELSE A1[j][k])
                  ELSE A1[j])
      B2 == Mk8(LAMBDA j : IF j > i THEN FSub(B1[j], FMul(fac[j], B1[i])) ELSE B1[j])
  IN [A |-> A2, B |-> B2]

RECURSIVE Eliminate(_, _)
Eliminate(S, i) == IF i > N THEN S ELSE Eliminate(ElimStep(S, i), i + 1)

RECURSIVE RowSum(_, _, _, _)
RowSum(A, x, i, j) ==
  IF j > N THEN Num(0)
  ELSE FAdd(FMul(A[i][j], x[j]), RowSum(A, x, i, j + 1))

RECURSIVE BackSub(_, _, _)
BackSub(S, x, i) ==
  IF i < 1 THEN x
  ELSE BackSub(S,
               [x EXCEPT ![i] = FDiv(FSub(S.B[i], RowSum(S.A, x, i, i + 1)), S.A[i][i])],
               i - 1)

solveGaussian(A, B) ==
  BackSub(Eliminate([A |-> A, B |-> B], 1), Mk8(LAMBDA k : Num(0)), N)

getHomographyMatrix(s, d) ==
  LET rowX(i) == <<s[i][1], s[i][2], Num(1), Num(0), Num(0), Num(0),
                   FMul(FNeg(d[i][1]), s[i][1]), FMul(FNeg(d[i][1]), s[i][2])>>
      rowY(i) == <<Num(0), Num(0), Num(0), s[i][1], s[i][2], Num(1),
                   FMul(FNeg(d[i][2]), s[i][1]), FMul(FNeg(d[i][2]), s[i][2])>>
      A == <<rowX(1), rowY(1), rowX(2), rowY(2), rowX(3), rowY(3), rowX(4), rowY(4)>>
      B == <<d[1][1], d[1][2], d[2][1], d[2][2], d[3][1], d[3][2], d[4][1], d[4][2]>>
  IN Append(solveGaussian(A, B), Num(1))

\* the denominator w = g*x + h*y + i of transform
transformW(x, y, m) == FAdd(FAdd(FMul(m[7], x), FMul(m[8], y)), m[9])

transformNoDivide(x, y, m) ==
  <<FAdd(FAdd(FMul(m[1], x), FMul(m[2], y)), m[3]),
    FAdd(FAdd(FMul(m[4], x), FMul(m[5], y)), m[6])>>

transform(x, y, m) ==
  LET w == transformW(x, y, m)
      px == FDiv(FAdd(FAdd(FMul(m[1], x), FMul(m[2], y)), m[3]), w)
      py == FDiv(FAdd(FAdd(FMul(m[4], x), FMul(m[5], y)), m[6]), w)
  IN <<px, py>>

toFlat(x, y) == transform(x, y, matrix)
toDistorted(x, y) == transform(x, y, inverseMatrix)

Pt(x, y) == <<Num(x), Num(y)>>

\* The quadrilaterals given to the constructor, in the order top-left,
\* top-right, bottom-right, bottom-left: the square of side QuadSize with its
\* top-left corner moved right by a and its top-right corner moved down by b.
\* a = QuadSize puts three corners on one line, b = QuadSize makes the two
\* right corners one point.
Quad(a, b) == <<Pt(a, 0), Pt(QuadSize, b), Pt(QuadSize, QuadSize), Pt(0, QuadSize)>>
QuadSet == { Quad(a, b) : a \in 0..MaxSkew, b \in 0..MaxSkew }
PointSet == { Pt(x, y) : x \in 0..MaxCoord, y \in 0..MaxCoord }

HInit ==
  /\ src \in QuadSet
  /\ dst \in QuadSet
  /\ matrix = None
  /\ inverseMatrix = None
  /\ thrown = "none"
  /\ hpc = "new"
  /\ pIn = None
  /\ pFlat = None
  /\ pBack = None

HIdle ==
  /\ src = None
  /\ dst = None
  /\ matrix = None
  /\ inverseMatrix = None
  /\ thrown = "none"
  /\ hpc = "off"
  /\ pIn = None
  /\ pFlat = None
  /\ pBack = None

\* new PerspectiveTransformer(src, dst): the constructor has no throw statement
Construct ==
  /\ hpc = "new"
  /\ matrix' = getHomographyMatrix(src, dst)
  /\ inverseMatrix' = getHomographyMatrix(dst, src)
  /\ thrown' = "none"
  /\ hpc' = "built"
  /\ UNCHANGED <<src, dst, pIn, pFlat, pBack, evars, avars, xvars>>

ToFlat ==
  /\ hpc = "built"
  /\ \E p \in PointSet :
       /\ pIn' = p
       /\ pFlat' = toFlat(p[1], p[2])
  /\ hpc' = "flat"
  /\ UNCHANGED <<src, dst, matrix, inverseMatrix, thrown, pBack, evars, avars, xvars>>

ToDistorted ==
  /\ hpc = "flat"
  /\ pBack' = toDistorted(pFlat[1], pFlat[2])
  /\ hpc' = "back"
  /\ UNCHANGED <<src, dst, matrix, inverseMatrix, thrown, pIn, pFlat, evars, avars, xvars>>

-----------------------------------------------------------------------------
(* LayoutEngine (part_004): the object heap.                               *)
(*                                                                         *)
(* An art piece is a record [id, x, y, width, height] (the url takes no    *)
(* part in any computation and is left out).  Arrays and pieces are heap   *)
(* objects with an identity, so that "returns a new array" and "does not   *)
(* change its input" say something: heap.arrays[r] is the array with       *)
(* reference r, a sequence of references into heap.objs.                   *)

Piece(id, x, y, w, h) == [id |-> id, x |-> x, y |-> y, width |-> w, height |-> h]

EmptyHeap == [arrays |-> <<>>, objs |-> <<>>]

\* the pieces an array holds, in order
Deref(h, a) == [i \in 1..Len(h.arrays[a]) |-> h.objs[h.arrays[a][i]]]

\* a new array of new objects: updated = []; updated.push({ ...item, x, y })
NewArray(h, values) ==
  LET base == Len(h.objs)
  IN [h |-> [arrays |-> Append(h.arrays, [i \in 1..Len(values) |-> base + i]),
             objs |-> h.objs \o values],
      ret |-> Len(h.arrays) + 1]

Area(p) == FMul(p.width, p.height)

\* Array.prototype.sort with (a, b) => b.width*b.height - a.width*a.height:
\* a stable sort by descending area, here by insertion from the left
RECURSIVE InsertByArea(_, _, _)
InsertByArea(h, sorted, r) ==
  IF sorted = <<>> THEN <<r>>
  ELSE IF FGt(Area(h.objs[r]), Area(h.objs[sorted[Len(sorted)]]))
       THEN Append(InsertByArea(h, SubSeq(sorted, 1, Len(sorted) - 1), r),
                   sorted[Len(sorted)])
       ELSE Append(sorted, r)

\* the references left in the order given: the sort forgotten
UnsortedRefs(h, refs, k) == SubSeq(refs, 1, k)

RECURSIVE SortRefs(_, _, _)
SortRefs(h, refs, k) ==
  IF k = 0 THEN <<>>
  ELSE InsertByArea(h, SortRefs(h, refs, k - 1), refs[k])

\* items.sort(...): the bug of sorting the caller's array itself
SortInPlace(h, a) ==
  [h |-> [h EXCEPT !.arrays[a] = SortRefs(h, h.arrays[a], Len(h.arrays[a]))],
   ret |-> a]

\* [...items].sort(...): a new array holding the same objects, sorted
SortedCopy(h, a) ==
  [h |-> [h EXCEPT !.arrays = Append(@, SortRefs(h, h.arrays[a], Len(h.arrays[a])))],
   ret |-> Len(h.arrays) + 1]

-----------------------------------------------------------------------------
(* IEEE 754 binary64, the number type of the unit conversions, with its     *)
(* rounding (to nearest, ties to even), overflow and gradual underflow.     *)
(* A finite value is sign * m * 2^e with the magnitude m written as a       *)
(* sequence of bits, most significant first, without leading or trailing    *)
(* zeros; the zero has no bits.  The sign of zero is not modelled.  One of  *)
(* the operands of a product, and the divisor of a quotient, has at most    *)
(* SmallBits bits.                                                          *)

Precision == 53
MaxExponent == 1024
MinExponent == -1074
SmallBits == 8

Front(s) == SubSeq(s, 1, Len(s) - 1)

Zeros(n) == [i \in 1..n |-> 0]

StripLeading(b) ==
  LET ones == {i \in 1..Len(b) : b[i] = 1}
  IN IF ones = {} THEN <<>>
     ELSE SubSeq(b, CHOOSE i \in ones : \A j \in ones : i <= j, Len(b))

TrailingZeros(b) ==
  LET ones == {i \in 1..Len(b) : b[i] = 1}
  IN IF ones = {} THEN Len(b)
     ELSE Len(b) - (CHOOSE i \in ones : \A j \in ones : i >= j)

RECURSIVE ToBits(_)
ToBits(n) == IF n = 0 THEN <<>> ELSE Append(ToBits(n \div 2), n % 2)

RECURSIVE ToInt(_)
ToInt(b) == IF b = <<>> THEN 0 ELSE 2 * ToInt(Front(b)) + b[Len(b)]

\* the arithmetic on bits goes by chunks of ChunkBits bits
ChunkBits == 8
ChunkBase == 2^ChunkBits

\* b with leading zeros up to a whole number of chunks
PadChunks(b) == Zeros((ChunkBits - (Len(b) % ChunkBits)) % ChunkBits) \o b

\* n < ChunkBase as ChunkBits bits
Chunk(n) == Zeros(ChunkBits - Len(ToBits(n))) \o ToBits(n)

DNaN == [k |-> "nan", s |-> 1, m |-> <<>>, e |-> 0]
DInf(s) == [k |-> "inf", s |-> s, m |-> <<>>, e |-> 0]
DZero == [k |-> "fin", s |-> 1, m |-> <<>>, e |-> 0]

\* the finite value s * b * 2^e, b of at most Precision significant bits
DFin(s, b, e) ==
  LET lead == StripLeading(b)
      z == TrailingZeros(lead)
  IN IF lead = <<>> THEN DZero
     ELSE [k |-> "fin", s |-> s, m |-> SubSeq(lead, 1, Len(lead) - z), e |-> e + z]

\* n * 2^e for a small integer n
Dbl(n, e) == DFin(Sgn(n), ToBits(Abs(n)), e)

\* b + 1
Inc(b) ==
  LET zs == {i \in 1..Len(b) : b[i] = 0}
  IN IF zs = {} THEN <<1>> \o Zeros(Len(b))
     ELSE LET j == CHOOSE i \in zs : \A k \in zs : i >= k
          IN SubSeq(b, 1, j - 1) \o <<1>> \o Zeros(Len(b) - j)

\* the binary64 nearest to s * (b + sticky) * 2^e, where sticky stands for
\* a positive amount below one unit of b's last place
DRound(s, b0, e, sticky) ==
  LET b == StripLeading(b0)
      drop == IF Len(b) - Precision > MinExponent - e
              THEN (IF Len(b) > Precision THEN Len(b) - Precision ELSE 0)
              ELSE (IF MinExponent > e THEN MinExponent - e ELSE 0)
      keep == IF drop >= Len(b) THEN <<>> ELSE SubSeq(b, 1, Len(b) - drop)
      guard == IF drop = 0 \/ drop > Len(b) THEN 0 ELSE b[Len(b) - drop + 1]
      rest == sticky \/ \E i \in (Len(b) - drop + 2)..Len(b) : i >= 1 /\ b[i] = 1
      odd == keep # <<>> /\ keep[Len(keep)] = 1
      up == guard = 1 /\ (rest \/ odd)
      kept == IF up THEN Inc(keep) ELSE keep
  IN IF Len(kept) + e + drop > MaxExponent THEN DInf(s)
     ELSE DFin(s, kept, e + drop)

\* the bits of b * n + carry, b a whole number of chunks
RECURSIVE MulChunks(_, _, _)
MulChunks(b, n, carry) ==
  IF b = <<>> THEN ToBits(carry)
  ELSE LET t == ToInt(SubSeq(b, Len(b) - ChunkBits + 1, Len(b))) * n + carry
       IN MulChunks(SubSeq(b, 1, Len(b) - ChunkBits), n, t \div ChunkBase)
            \o Chunk(t % ChunkBase)

MulBits(b, n) == MulChunks(PadChunks(b), n, 0)

\* long division of (rem, b) by n, b a whole number of chunks and rem < n:
\* the quotient bits and the remainder
RECURSIVE DivChunks(_, _, _)
DivChunks(b, n, rem) ==
  IF b = <<>> THEN [q |-> <<>>, rem |-> rem]
  ELSE LET t == rem * ChunkBase + ToInt(SubSeq(b, 1, ChunkBits))
           r == DivChunks(SubSeq(b, ChunkBits + 1, Len(b)), n, t % n)
       IN [q |-> Chunk(t \div n) \o r.q, rem |-> r.rem]

DivBits(b, n) == DivChunks(PadChunks(b), n, 0)

IsSmall(x) == Len(x.m) <= SmallBits

\* x * y
DMul(x, y) ==
  IF x.k = "nan" \/ y.k = "nan" THEN DNaN
  ELSE IF x.k = "inf" \/ y.k = "inf"
       THEN (IF x = DZero \/ y = DZero THEN DNaN ELSE DInf(x.s * y.s))
  ELSE IF x = DZero \/ y = DZero THEN DZero
  ELSE LET big == IF IsSmall(y) THEN x ELSE y
           small == IF IsSmall(y) THEN y ELSE x
       IN DRound(x.s * y.s, MulBits(big.m, ToInt(small.m)), big.e + small.e, FALSE)

\* x / y
DDiv(x, y) ==
  IF x.k = "nan" \/ y.k = "nan" THEN DNaN
  ELSE IF x.k = "inf" THEN (IF y.k = "inf" THEN DNaN ELSE DInf(x.s * y.s))
  ELSE IF y.k = "inf" THEN DZero
  ELSE IF y = DZero THEN (IF x = DZero THEN DNaN ELSE DInf(x.s))
  ELSE IF x = DZero THEN DZero
  ELSE LET pad == Precision + 2 + Len(y.m)
           d == DivBits(x.m \o Zeros(pad), ToInt(y.m))
       IN DRound(x.s * y.s, d.q, x.e - pad - y.e, d.rem # 0)

\* x > 0
DPositive(x) == x.k # "nan" /\ x # DZero /\ x.s = 1

\* b * 2^e is a binary64 value: the rounding leaves it as it is
Representable(b, e) ==
  LET c == DFin(1, b, e)
  IN /\ Len(c.m) <= Precision
     /\ c.e >= MinExponent
     /\ Len(c.m) + c.e <= MaxExponent

-----------------------------------------------------------------------------
(* LayoutEngine: unit conversion.                                          *)

calculatePixelsPerInch(referencePixels, referenceInches) ==
  IF referenceInches = Num(0) THEN Num(0)
  ELSE FDiv(referencePixels, referenceInches)

\* the two conversions, on binary64 values
inchesToPixels(inches, pxPerInch) == DMul(inches, pxPerInch)

pixelsToInchesTimes(pixels, pxPerInch) ==
  IF pxPerInch = DZero THEN DZero ELSE DMul(pixels, pxPerInch)

pixelsToInches(pixels, pxPerInch) ==
  IF pxPerInch = DZero THEN DZero ELSE DDiv(pixels, pxPerInch)

EyeLevelInches == 57

\* the static LayoutEngine.apply57InchRule: the top of a frame centred 57
\* inches above the bottom of the wall image
engineApply57InchRule(frameHeightPixels, wallHeightPixels, pxPerInch) ==
  LET centerFromFloorPixels == FMul(Num(EyeLevelInches), pxPerInch)
      centerY == FSub(wallHeightPixels, centerFromFloorPixels)
  IN FSub(centerY, FDiv(frameHeightPixels, Num(2)))

-----------------------------------------------------------------------------
(* LayoutEngine: the layouts, on the pieces (values) of the arrays.        *)

\* the x of each item of a left-to-right run: currentX += item.width + gap
RECURSIVE RowXs(_, _, _, _)
RowXs(its, i, cur, gap) ==
  IF i > Len(its) THEN <<>>
  ELSE <<cur>> \o RowXs(its, i + 1, FAdd(cur, FAdd(its[i].width, gap)), gap)

\* the y of each item of a top-to-bottom run: currentY += item.height + gap
RECURSIVE ColYs(_, _, _, _)
ColYs(its, i, cur, gap) ==
  IF i > Len(its) THEN <<>>
  ELSE <<cur>> \o ColYs(its, i + 1, FAdd(cur, FAdd(its[i].height, gap)), gap)

PlaceRow(its, x0, y0, gap) ==
  LET xs == RowXs(its, 1, x0, gap)
  IN [i \in 1..Len(its) |-> [its[i] EXCEPT !.x = xs[i], !.y = y0]]

PlaceColumn(its, x0, y0, gap) ==
  LET ys == ColYs(its, 1, y0, gap)
  IN [i \in 1..Len(its) |-> [its[i] EXCEPT !.x = x0, !.y = ys[i]]]

autoArrangeUniformItems(its, startingX, gapInches, pxPerInch) ==
  LET gapPixels == FMul(gapInches, pxPerInch)
      xs == RowXs(its, 1, startingX, gapPixels)
  IN [i \in 1..Len(its) |-> [its[i] EXCEPT !.x = xs[i]]]

RECURSIVE MaxHeight(_, _, _)
MaxHeight(its, i, m) ==
  IF i > Len(its) THEN m
  ELSE MaxHeight(its, i + 1, IF FGt(its[i].height, m) THEN its[i].height ELSE m)

\* a grid that gives the first row the smaller half, floor(n/2)
arrangeGridFloor(its, startX, startY, gapInches, pxPerInch, variant) ==
  LET gap == FMul(gapInches, pxPerInch)
      count == Len(its)
      firstRowCount == count \div 2
      row1 == SubSeq(its, 1, firstRowCount)
      row2 == SubSeq(its, firstRowCount + 1, count)
      row2Y == FAdd(FAdd(startY, MaxHeight(row1, 1, Num(0))), gap)
  IN IF variant % 3 = 0
     THEN PlaceRow(row1, startX, startY, gap) \o PlaceRow(row2, startX, row2Y, gap)
     ELSE IF variant % 3 = 1
     THEN PlaceRow(its, startX, startY, gap)
     ELSE PlaceColumn(its, startX, startY, gap)

arrangeGridItems(its, startX, startY, gapInches, pxPerInch, variant) ==
  LET gap == FMul(gapInches, pxPerInch)
      count == Len(its)
  IN IF variant % 3 = 0
     THEN LET firstRowCount == (count + 1) \div 2
              row1 == SubSeq(its, 1, firstRowCount)
              row2 == SubSeq(its, firstRowCount + 1, count)
              maxRow1Height == MaxHeight(row1, 1, Num(0))
              row2Y == FAdd(FAdd(startY, maxRow1Height), gap)
          IN PlaceRow(row1, startX, startY, gap) \o PlaceRow(row2, startX, row2Y, gap)
     ELSE IF variant % 3 = 1
     THEN PlaceRow(its, startX, startY, gap)
     ELSE PlaceColumn(its, startX, startY, gap)

Half(a) == FDiv(a, Num(2))

\* sorted: the pieces by descending area; its: the pieces in input order
arrangeMosaicItems(sorted, its, centerX, centerY, gapInches, pxPerInch, variant) ==
  LET gap == FMul(gapInches, pxPerInch)
      main == sorted[1]
      others == SubSeq(sorted, 2, Len(sorted))
  IN IF variant % 3 = 0
     THEN LET mainRight == FAdd(FAdd(centerX, Half(main.width)), gap)
              mainLeft == FSub(FSub(centerX, Half(main.width)), gap)
              mainTop == FSub(FSub(centerY, Half(main.height)), gap)
              mainBottom == FAdd(FAdd(centerY, Half(main.height)), gap)
              place(item, i) ==
                IF i % 4 = 0
                THEN [item EXCEPT !.x = mainRight, !.y = FSub(centerY, Half(item.height))]
                ELSE IF i % 4 = 1
                THEN [item EXCEPT !.x = FSub(mainLeft, item.width),
                                  !.y = FSub(centerY, Half(item.height))]
                ELSE IF i % 4 = 2
                THEN [item EXCEPT !.x = FSub(centerX, Half(item.width)),
                                  !.y = FSub(mainTop, item.height)]
                ELSE [item EXCEPT !.x = FSub(centerX, Half(item.width)), !.y = mainBottom]
          IN <<[main EXCEPT !.x = FSub(centerX, Half(main.width)),
                            !.y = FSub(centerY, Half(main.height))]>>
             \o [i \in 1..Len(others) |-> place(others[i], i - 1)]
     ELSE IF variant % 3 = 1
     THEN LET topY == FSub(centerY, gap)
              place(item, i) ==
                IF i % 2 = 0
                THEN [item EXCEPT !.x = FSub(FSub(centerX, item.width), gap),
                                  !.y = FSub(topY, item.height)]
                ELSE [item EXCEPT !.x = FAdd(centerX, gap), !.y = FSub(topY, item.height)]
          IN <<[main EXCEPT !.x = FSub(centerX, Half(main.width)), !.y = centerY]>>
             \o [i \in 1..Len(others) |-> place(others[i], i - 1)]
     ELSE LET RECURSIVE stairs(_, _, _)
              stairs(i, curX, curY) ==
                IF i > Len(its) THEN <<>>
                ELSE <<[its[i] EXCEPT !.x = curX, !.y = curY]>>
                     \o stairs(i + 1,
                               FAdd(curX, FMul(its[i].width, Frac(8, 10))),
                               FAdd(curY, FMul(its[i].height, Frac(5, 10))))
          IN stairs(1, FSub(centerX, Num(Len(its) * 100)), FSub(centerY, Num(Len(its) * 50)))

RECURSIVE SumWidths(_, _, _)
SumWidths(its, i, sum) ==
  IF i > Len(its) THEN sum ELSE SumWidths(its, i + 1, FAdd(sum, its[i].width))

RECURSIVE MaxWidth(_, _, _)
MaxWidth(its, i, m) ==
  IF i > Len(its) THEN m ELSE MaxWidth(its, i + 1, FMax(m, its[i].width))

TemplateNames == {"row", "grid", "big-left", "big-right", "big-center", "stairs"}

\* config.wallWidth ? ... : ...  -- undefined (None), 0 and NaN are falsy
Truthy(v) == v # None /\ v # Num(0) /\ ~IsNaN(v)

\* the array applyTemplate builds for one of the six names; config is
\* [startX, startY, gapInches, ppi, wallWidth]
applyTemplateItems(sorted, its, templateName, config) ==
  LET startX == config.startX
      startY == config.startY
      gap == FMul(config.gapInches, config.ppi)
      main == sorted[1]
      others == SubSeq(sorted, 2, Len(sorted))
  IN CASE templateName = "row" ->
            LET totalWidth == FAdd(SumWidths(its, 1, Num(0)),
                                   FMul(Num(Len(its) - 1), gap))
                x0 == FSub(IF Truthy(config.wallWidth) THEN Half(config.wallWidth)
                                                       ELSE startX,
                           Half(totalWidth))
            IN PlaceRow(its, x0, startY, gap)
       [] templateName = "grid" ->
            arrangeGridItems(its, startX, startY, config.gapInches, config.ppi, 0)
       [] templateName = "big-left" ->
            IF Len(its) = 0 THEN <<>>
            ELSE <<[main EXCEPT !.x = startX, !.y = startY]>>
                 \o PlaceColumn(others, FAdd(FAdd(startX, main.width), gap), startY, gap)
       [] templateName = "big-right" ->
            IF Len(its) = 0 THEN <<>>
            ELSE LET stackWidth == MaxWidth(others, 1, Num(0))
                     mainX == FAdd(FAdd(startX, stackWidth), gap)
                 IN PlaceColumn(others, startX, startY, gap)
                    \o <<[main EXCEPT !.x = mainX, !.y = startY]>>
       [] templateName = "big-center" ->
            IF Len(its) = 0 THEN <<>>
            ELSE LET mainX == startX
                     leftX == FSub(FSub(mainX, Half(main.width)), gap)
                     rightX == FAdd(FAdd(mainX, Half(main.width)), gap)
                     RECURSIVE sides(_, _, _)
                     sides(i, lY, rY) ==
                       IF i > Len(others) THEN <<>>
                       ELSE IF (i - 1) % 2 = 0
                       THEN <<[others[i] EXCEPT !.x = FSub(leftX, others[i].width),
                                                !.y = lY]>>
                            \o sides(i + 1, FAdd(lY, FAdd(others[i].height, gap)), rY)
                       ELSE <<[others[i] EXCEPT !.x = rightX, !.y = rY]>>
                            \o sides(i + 1, lY, FAdd(rY, FAdd(others[i].height, gap)))
                 IN <<[main EXCEPT !.x = FSub(mainX, Half(main.width)), !.y = startY]>>
                    \o sides(1, startY, startY)
       [] templateName = "stairs" ->
            LET RECURSIVE steps(_, _, _)
                steps(i, cx, cy) ==
                  IF i > Len(its) THEN <<>>
                  ELSE <<[its[i] EXCEPT !.x = cx, !.y = cy]>>
                       \o steps(i + 1, FAdd(cx, FAdd(its[i].width, gap)),
                                FAdd(cy, Half(its[i].height)))
            IN steps(1, startX, startY)

-----------------------------------------------------------------------------
(* LayoutEngine: the layouts, on the heap.  Each returns the heap after    *)
(* the call and the reference it returns: [h, ret].                        *)

autoArrangeUniform(h, a, startingX, gapInches, pxPerInch) ==
  NewArray(h, autoArrangeUniformItems(Deref(h, a), startingX, gapInches, pxPerInch))

arrangeGrid(h, a, startX, startY, gapInches, pxPerInch, variant) ==
  NewArray(h, arrangeGridItems(Deref(h, a), startX, startY, gapInches, pxPerInch, variant))

\* an arrangeMosaic without the test of items.length: with no items main is
\* undefined, and variants 0 and 1 raise a TypeError reading main.width (no
\* array is returned, ret is 0); variant 2 reads no main
arrangeMosaicNoGuard(h, a, centerX, centerY, gapInches, pxPerInch, variant) ==
  LET s == SortedCopy(h, a)
  IN IF Len(h.arrays[a]) = 0 /\ variant % 3 # 2
     THEN [h |-> s.h, ret |-> 0]
     ELSE NewArray(s.h, arrangeMosaicItems(Deref(s.h, s.ret), Deref(s.h, a),
                                           centerX, centerY, gapInches, pxPerInch, variant))

arrangeMosaic(h, a, centerX, centerY, gapInches, pxPerInch, variant) ==
  IF Len(h.arrays[a]) = 0 THEN [h |-> h, ret |-> a]
  ELSE LET s == SortedCopy(h, a)
       IN NewArray(s.h, arrangeMosaicItems(Deref(s.h, s.ret), Deref(s.h, a),
                                           centerX, centerY, gapInches, pxPerInch, variant))

\* an applyTemplate whose default case returns the sorted copy
applyTemplateSorted(h, a, templateName, config) ==
  LET s == SortedCopy(h, a)
  IN IF templateName \in TemplateNames
     THEN NewArray(s.h, applyTemplateItems(Deref(s.h, s.ret), Deref(s.h, a),
                                           templateName, config))
     ELSE [h |-> s.h, ret |-> s.ret]

applyTemplate(h, a, templateName, config) ==
  LET s == SortedCopy(h, a)
  IN IF templateName \in TemplateNames
     THEN NewArray(s.h, applyTemplateItems(Deref(s.h, s.ret), Deref(s.h, a),
                                           templateName, config))
     ELSE [h |-> s.h, ret |-> a]

-----------------------------------------------------------------------------
(* LayoutEngine called on its own: inputs and calls.                       *)

CallsOf(op) == { k \in 1..Len(calls) : calls[k].op = op }

Call(op, args, ret) == [op |-> op, args |-> args, ret |-> ret, err |-> "none"]

PixelValues == {Num(0), Num(200), Frac(1, 3)}
InchValues == {Num(0), Num(80), Num(-4)}
PpiValues == {Num(0), Frac(5, 2), Num(10)}

\* 0.1, the binary64 nearest to one tenth: 0x1999999999999A * 2^-56
Tenth == DFin(1, <<1>> \o [i \in 1..48 |-> IF i % 4 \in {0, 1} THEN 1 ELSE 0]
                      \o <<1, 0, 1, 0>>, -56)

\* binary64 lengths: 0, 4.5, -4, 0.1, 2^1023 and the least positive value
\* 2^-1074
Values64 ==
  {DZero, Dbl(9, -1), Dbl(-4, 0), Tenth, Dbl(1, MaxExponent - 1), Dbl(1, MinExponent)}

\* binary64 ratios: 0, 2.5, 3, 0.5 and -2
PpiValues64 == {DZero, Dbl(5, -1), Dbl(3, 0), Dbl(1, -1), Dbl(-2, 0)}

\* width and height of the input pieces; two of them have the same area
PieceSizes == {<<Num(20), Num(30)>>, <<Num(30), Num(20)>>, <<Num(40), Num(40)>>}

\* [startX, startY, gapInches, ppi, wallWidth]; the mosaics take startX
\* and startY as their centre
EngineConfigs ==
  { [startX |-> Num(100), startY |-> Num(50), gapInches |-> Num(3),
     ppi |-> Num(10), wallWidth |-> None],
    [startX |-> Num(320), startY |-> Frac(45, 2), gapInches |-> Num(3),
     ppi |-> Frac(5, 2), wallWidth |-> Num(640)] }

\* 'spiral' is named by the documentation of applyTemplate and has no case;
\* nor has 'Row', the switch compares with ===
GivenTemplateNames == TemplateNames \cup {"spiral", "Row"}

InputPieces(n, sizes) ==
  [i \in 1..n |-> Piece(i, Num(10 * i), Num(5 * i), sizes[i][1], sizes[i][2])]

EIdle ==
  /\ heap = EmptyHeap
  /\ items = 0
  /\ itemsBefore = None
  /\ calls = None

\* an array of 0..MaxItems pieces on the heap, no call made
EInit ==
  /\ \E n \in 0..MaxItems :
       \E sizes \in [1..n -> PieceSizes] :
         /\ heap = NewArray(EmptyHeap, InputPieces(n, sizes)).h
         /\ itemsBefore = InputPieces(n, sizes)
  /\ items = 1
  /\ calls = None

ArrayCall(op, args, r) ==
  /\ calls = None
  /\ items # 0
  /\ heap' = r.h
  /\ calls' = <<Call(op, args, r.ret)>>
  /\ UNCHANGED <<items, itemsBefore, hvars, avars, xvars>>

CallAutoArrangeUniform ==
  /\ calls = None
  /\ \E c \in EngineConfigs :
    ArrayCall("autoArrangeUniform", <<c>>,
              autoArrangeUniform(heap, items, c.startX, c.gapInches, c.ppi))

CallArrangeGrid ==
  /\ calls = None
  /\ \E c \in EngineConfigs, variant \in 0..MaxVariant :
    ArrayCall("arrangeGrid", <<c, variant>>,
              arrangeGrid(heap, items, c.startX, c.startY, c.gapInches, c.ppi, variant))

CallArrangeMosaic ==
  /\ calls = None
  /\ \E c \in EngineConfigs, variant \in 0..MaxVariant :
    ArrayCall("arrangeMosaic", <<c, variant>>,
              arrangeMosaic(heap, items, c.startX, c.startY, c.gapInches, c.ppi, variant))

CallApplyTemplate ==
  /\ calls = None
  /\ \E c \in EngineConfigs, name \in GivenTemplateNames :
    ArrayCall("applyTemplate", <<c, name>>, applyTemplate(heap, items, name, c))

ScalarCall(op, args, v) ==
  /\ items = 0
  /\ Len(calls) < MaxCalls
  /\ calls' = Append(calls, Call(op, args, v))
  /\ UNCHANGED <<heap, items, itemsBefore, hvars, avars, xvars>>

CallCalculatePixelsPerInch ==
  /\ Len(calls) < MaxCalls
  /\ \E px \in PixelValues, inches \in InchValues :
    ScalarCall("calculatePixelsPerInch", <<px, inches>>,
               calculatePixelsPerInch(px, inches))

CallInchesToPixels ==
  /\ Len(calls) < MaxCalls
  /\ \E inches \in Values64, pxPerInch \in PpiValues64 :
    ScalarCall("inchesToPixels", <<inches, pxPerInch>>, inchesToPixels(inches, pxPerInch))

\* the pixels are a given value or the result of the call before
CallPixelsToInches ==
  /\ Len(calls) < MaxCalls
  /\ \E px \in Values64 \cup {calls[k].ret : k \in {Len(calls)} \cap CallsOf("inchesToPixels")},
     pxPerInch \in PpiValues64 :
    ScalarCall("pixelsToInches", <<px, pxPerInch>>, pixelsToInches(px, pxPerInch))

CallApply57InchRule ==
  /\ Len(calls) < MaxCalls
  /\ \E frameHeight \in {Num(30)}, wallHeight \in {Num(960), Num(480)},
     pxPerInch \in PpiValues :
    ScalarCall("apply57InchRule", <<frameHeight, wallHeight, pxPerInch>>,
               engineApply57InchRule(frameHeight, wallHeight, pxPerInch))

LayoutNext ==
  \/ CallAutoArrangeUniform
  \/ CallArrangeGrid
  \/ CallArrangeMosaic
  \/ CallApplyTemplate

UnitsNext ==
  \/ CallCalculatePixelsPerInch
  \/ CallInchesToPixels
  \/ CallPixelsToInches
  \/ CallApply57InchRule

-----------------------------------------------------------------------------
(* VuraApp, the page component: values and the helpers of the component.   *)
(* The positions are computed on exact rationals.                          *)

Pages == {"page.tsx", "part_001"}

\* a property that an object does not have, and a state that was set to it
Undefined == <<"undefined">>

\* ToNumber of a state value
ToNumber(v) == IF v = Undefined THEN NaN ELSE v

\* a url that is neither null nor undefined
IsUrl(url) == url # None /\ url # Undefined

\* the files the user can pick as a wall, and the intrinsic size of each
WallFiles == {<<"wallA">>}
\* a second photo, of another size, for the sessions that change the wall
OtherWallFiles == {<<"wallB">>}
ImageSize(url) ==
  IF url = <<"wallA">> THEN <<640, 480>>
  ELSE IF url = <<"wallB">> THEN <<800, 600>>
  ELSE <<0, 0>>

\* the client sizes the wall container takes; the first is the one it has
\* when the page opens
ContainerSizes == {<<1280, 960>>, <<960, 720>>}
InitialContainer == <<1280, 960>>

\* the rows of the table rooms as GET /api/room returns them: the keys are
\* those of the schema (part_000), wallImageUrl and referenceRatioPpi
SavedRooms ==
  << [id |-> 1, name |-> "hall", wallImageUrl |-> <<"wallR">>,
      referenceRatioPpi |-> Frac(5, 2)] >>

\* room.key
Get(room, key) == IF key \in DOMAIN room THEN room[key] ELSE Undefined

\* the tables before the session: rooms holds SavedRooms, art_pieces nothing
InitialDb == [rooms |-> SavedRooms, artPieces |-> <<>>]

\* a column of type real holds a number of 24 significant bits: the nearest
\* one, ties to even (in the range of the normal numbers)
RECURSIVE Round24(_, _)
Round24(n, d) ==
  IF n >= 16777216 * d THEN FMul(Num(2), Round24(n, 2 * d))
  ELSE IF n < 8388608 * d THEN FDiv(Round24(2 * n, d), Num(2))
  ELSE LET q == n \div d
           r == n % d
       IN Num(IF 2 * r > d \/ (2 * r = d /\ q % 2 = 1) THEN q + 1 ELSE q)

ToReal(v) ==
  IF ~IsFinite(v) \/ v[1] = 0 THEN v
  ELSE IF v[1] < 0 THEN FNeg(Round24(-v[1], v[2]))
  ELSE Round24(v[1], v[2])

\* JSON.stringify of a property: undefined is left out, NaN and the
\* infinities become null, the rest is kept
JsonOf(v) ==
  IF v = Undefined \/ v = None THEN v
  ELSE IF Len(v) = 2 /\ ~IsFinite(v) THEN None
  ELSE v

\* what an insert stores for a value: NULL for undefined and null
ColumnOf(v) == IF v = Undefined THEN None ELSE v
RealColumnOf(v) == IF v = Undefined \/ v = None THEN None ELSE ToReal(v)

\* the rows POST /api/room makes of the pieces of the request; image_url,
\* which no computation reads, is left out
PieceRows(roomId, pieces) ==
  [i \in 1..Len(pieces) |->
     [roomId |-> roomId,
      x |-> RealColumnOf(JsonOf(pieces[i].x)), y |-> RealColumnOf(JsonOf(pieces[i].y)),
      width |-> RealColumnOf(JsonOf(pieces[i].width)),
      height |-> RealColumnOf(JsonOf(pieces[i].height))]]

\* x, y, width and height are notNull
RowsInsertable(rows) ==
  \A i \in 1..Len(rows) :
    rows[i].x # None /\ rows[i].y # None /\ rows[i].width # None /\ rows[i].height # None

\* GET /api/room: the five newest rows of rooms, the newest first
RECURSIVE Newest(_, _)
Newest(rows, n) ==
  IF n = 0 \/ rows = <<>> THEN <<>>
  ELSE <<rows[Len(rows)]>> \o Newest(SubSeq(rows, 1, Len(rows) - 1), n - 1)

\* CalibrationModal: client size of its image container, the length typed
\* (the door preset is '80') and the length of the ruler line
ModalSizes == {<<320, 240>>}
TypedInches == {Num(80)}
LineLengthsPx == {Num(200)}

\* where Rnd lets a piece be dropped, and the size it lets it be given
DragPositions == {<<Num(100), Num(200)>>}
ResizeSizes == {<<Num(100), Num(150)>>}

\* the templates the LayoutSelector offers
SelectableTemplates == TemplateNames

\* what the detection collaborator reports: no object, or the box of a sofa
Anchors == {None, [class |-> "couch", x |-> Num(200), y |-> Num(300),
                   width |-> Num(240), height |-> Num(100)]}

\* wallContainerRef.current as a handler sees it: the client size of the
\* container, None while the landing page is shown
Ref == IF hasStarted THEN container ELSE None

getScaleFactor(ref, wd) ==
  IF ref = None \/ wd[1] = 0 THEN Num(1)
  ELSE LET scaleW == FDiv(Num(ref[1]), Num(wd[1]))
           scaleH == FDiv(Num(ref[2]), Num(wd[2]))
       IN FMax(scaleW, scaleH)

\* the branch of getEffectivePPI that estimates
UsesEstimate(ref, p, wd) == p = Num(0) \/ ref = None \/ wd[1] = 0

getEffectivePPI(ref, p, wd) ==
  IF UsesEstimate(ref, p, wd)
  THEN (IF ref # None THEN FDiv(Num(ref[2]), Num(96)) ELSE Num(50))
  ELSE FMul(ToNumber(p), getScaleFactor(ref, wd))

getCanvasSize(ref, wd) == IF ref # None THEN ref ELSE wd

\* showCalibrationWarning alerts
Alerts(p) == p = Num(0)

\* the inches of the eye-level line: 57 in page.tsx, 60 in part_001
CenterLineInches(pg) == IF pg = "page.tsx" THEN 57 ELSE 60

getCenterLineY(pg, ref, wd, fY, activePPI, canvasHeight) ==
  LET scale == getScaleFactor(ref, wd)
      effectiveFloorY == IF FGt(fY, Num(0)) THEN FMul(fY, scale) ELSE canvasHeight
      pixelsFromFloor == FMul(Num(CenterLineInches(pg)), activePPI)
  IN FSub(effectiveFloorY, pixelsFromFloor)

\* the four layouts of LayoutEngine on the value of an array
TemplateOf(its, templateName, config) ==
  LET h0 == NewArray(EmptyHeap, its)
      r == applyTemplate(h0.h, h0.ret, templateName, config)
  IN Deref(r.h, r.ret)

UniformOf(its, startingX, gapInches, p) ==
  LET h0 == NewArray(EmptyHeap, its)
      r == autoArrangeUniform(h0.h, h0.ret, startingX, gapInches, p)
  IN Deref(r.h, r.ret)

GridOf(its, startX, startY, gapInches, p, variant) ==
  LET h0 == NewArray(EmptyHeap, its)
      r == arrangeGrid(h0.h, h0.ret, startX, startY, gapInches, p, variant)
  IN Deref(r.h, r.ret)

MosaicOf(its, centerX, centerY, gapInches, p, variant) ==
  LET h0 == NewArray(EmptyHeap, its)
      r == arrangeMosaic(h0.h, h0.ret, centerX, centerY, gapInches, p, variant)
  IN Deref(r.h, r.ret)

\* artPieces.map(p => ({ ...p, y: centerLineY - p.height / 2 }))
CenterOn(its, centerLineY) ==
  [i \in 1..Len(its) |-> [its[i] EXCEPT !.y = FSub(centerLineY, FDiv(its[i].height, Num(2)))]]

\* a move across only
ShiftAcross(its, dx, dy) ==
  [i \in 1..Len(its) |-> [its[i] EXCEPT !.x = FAdd(@, dx)]]

\* prev.map(p => ({ ...p, x: p.x + dx, y: p.y + dy }))
Shift(its, dx, dy) ==
  [i \in 1..Len(its) |-> [its[i] EXCEPT !.x = FAdd(@, dx), !.y = FAdd(@, dy)]]

\* the least and the greatest of f over the pieces, from Infinity and
\* -Infinity as the loops of handleSuggestSpot start
RECURSIVE LeastOf(_, _, _)
LeastOf(vals, i, m) ==
  IF i > Len(vals) THEN m
  ELSE LeastOf(vals, i + 1, IF FLt(vals[i], m) THEN vals[i] ELSE m)

RECURSIVE GreatestOf(_, _, _)
GreatestOf(vals, i, m) ==
  IF i > Len(vals) THEN m
  ELSE GreatestOf(vals, i + 1, IF FGt(vals[i], m) THEN vals[i] ELSE m)

\* clearance above the anchor, in inches
ClearanceInches == 10

\* LayoutEngine.calculateAIHangPoint: the target above the anchor
calculateAIHangPoint(anchor, p, groupHeight) ==
  [x |-> FAdd(anchor.x, FDiv(anchor.width, Num(2))),
   y |-> FSub(FSub(anchor.y, FMul(Num(ClearanceInches), p)), groupHeight)]

\* what a render computes for the labels of the pieces (the map over
\* artPieces in the JSX): the scale it read and the ppi it divides by.  The
\* render reads wallContainerRef.current as the commit before it left it.
RenderLabels(refAtRender, started, wi, wd, p, pieces) ==
  IF started /\ IsUrl(wi) /\ pieces # <<>>
  THEN [scale |-> getScaleFactor(refAtRender, wd),
        activePPI |-> FMul(ToNumber(p), getScaleFactor(refAtRender, wd)),
        ref |-> refAtRender,
        wallDimensions |-> wd]
  ELSE None

\* the record of a handler that computed no layout
Did(op) ==
  [op |-> op, estimated |-> FALSE, warned |-> FALSE, ppi |-> None,
   activePPI |-> None, scale |-> None, ref |-> None, wallDimensions |-> None,
   floorY |-> None, canvasHeight |-> None, centerLineY |-> None,
   alerts |-> <<>>, room |-> None, guide |-> None,
   overwrote |-> FALSE]

\* history: the handler of the record calls setArtPieces with a value made
\* from the piece set seen, and so overwrites the current one if they differ
Writes(rec, seen) == [rec EXCEPT !.overwrote = (seen # artPieces)]

\* a handler that raises no alert
NotAlerted(rec, title) == rec

\* setAlertState({ open: true, title, ... }) in the handler of the record
Alerted(rec, title) == [rec EXCEPT !.alerts = Append(@, title)]

\* the record of a handler that computed a layout: the ppi it read, the
\* value getEffectivePPI returned, whether that was the estimate, whether
\* showCalibrationWarning was called and alerted, and the centre line
Computed(op, ref, p, wd, fY, canvasHeight, centerLineY, warns) ==
  [op |-> op,
   estimated |-> UsesEstimate(ref, p, wd),
   warned |-> warns /\ Alerts(p),
   ppi |-> p,
   activePPI |-> getEffectivePPI(ref, p, wd),
   scale |-> getScaleFactor(ref, wd),
   ref |-> ref,
   wallDimensions |-> wd,
   floorY |-> fY,
   canvasHeight |-> canvasHeight,
   centerLineY |-> centerLineY,
   alerts |-> <<>>,
   room |-> None,
   guide |-> None,
   overwrote |-> FALSE]

-----------------------------------------------------------------------------
(* VuraApp: the handlers.  roomName and showHistory, which no computation   *)
(* reads, are left out.                                                     *)

AIdle ==
  /\ page = "off"
  /\ hasStarted = FALSE
  /\ recentRooms = <<>>
  /\ db = InitialDb
  /\ saves = <<>>
  /\ wallImage = None
  /\ loading = {}
  /\ wallDimensions = <<0, 0>>
  /\ container = InitialContainer
  /\ ppi = Num(0)
  /\ floorY = Num(0)
  /\ calibratedFor = None
  /\ isCalibrating = FALSE
  /\ artPieces = <<>>
  /\ gridVariant = 0
  /\ gridCalls = <<>>
  /\ mosaicVariant = 0
  /\ scan = None
  /\ upload = None
  /\ isScanningRoom = FALSE
  /\ rendered = None
  /\ last = Did("mount")
  /\ clock = 0

\* the useState initial values; the landing page is shown
AInit ==
  /\ page \in Pages
  /\ hasStarted = FALSE
  /\ recentRooms = <<>>
  /\ db = InitialDb
  /\ saves = <<>>
  /\ wallImage = None
  /\ loading = {}
  /\ wallDimensions = <<0, 0>>
  /\ container = InitialContainer
  /\ ppi = Num(0)
  /\ floorY = Num(0)
  /\ calibratedFor = None
  /\ isCalibrating = FALSE
  /\ artPieces = <<>>
  /\ gridVariant = 0
  /\ gridCalls = <<>>
  /\ mosaicVariant = 0
  /\ scan = None
  /\ upload = None
  /\ isScanningRoom = FALSE
  /\ rendered = None
  /\ last = Did("mount")
  /\ clock = 0

\* the render that follows a change of state: the container is the one the
\* commit before left in wallContainerRef
Rerender ==
  rendered' = RenderLabels(Ref, hasStarted, wallImage', wallDimensions', ppi', artPieces')

Tick == clock' = clock + 1

\* the response of GET /api/room arrives
RoomsFetched ==
  /\ clock < MaxSteps
  /\ recentRooms = <<>>
  /\ recentRooms' = Newest(db.rooms, 5)
  /\ last' = Did("RoomsFetched")
  /\ Tick
  /\ UNCHANGED <<page, hasStarted, db, saves, wallImage, loading, wallDimensions, container, ppi,
                 floorY, calibratedFor, isCalibrating, artPieces, gridVariant, gridCalls, mosaicVariant, scan, upload,
                 isScanningRoom, hvars, evars, xvars>>
  /\ Rerender

\* LandingPage onStart: the page is rendered for the first time, with
\* wallContainerRef.current still null
Start ==
  /\ clock < MaxSteps
  /\ ~hasStarted
  /\ hasStarted' = TRUE
  /\ last' = Did("onStart")
  /\ Tick
  /\ UNCHANGED <<page, recentRooms, db, saves, wallImage, loading, wallDimensions, container, ppi,
                 floorY, calibratedFor, isCalibrating, artPieces, gridVariant, gridCalls, mosaicVariant, scan, upload,
                 isScanningRoom, hvars, evars, xvars>>
  /\ rendered' = RenderLabels(None, TRUE, wallImage, wallDimensions, ppi, artPieces)

\* the title is clicked: setHasStarted(false), the page is unmounted
GoHome ==
  /\ clock < MaxSteps
  /\ hasStarted
  /\ hasStarted' = FALSE
  /\ last' = Did("title")
  /\ rendered' = None
  /\ Tick
  /\ UNCHANGED <<page, recentRooms, db, saves, wallImage, loading, wallDimensions, container, ppi,
                 floorY, calibratedFor, isCalibrating, artPieces, gridVariant, gridCalls, mosaicVariant, scan, upload,
                 isScanningRoom, hvars, evars, xvars>>

\* the viewport is resized.  part_001 listens and forces a render
\* (setWallDimensions(prev => ({...prev}))); page.tsx has no listener.
Resize ==
  /\ clock < MaxSteps
  /\ \E c \in ContainerSizes \ {container} :
       /\ container' = c
       /\ rendered' = IF page = "part_001"
                      THEN RenderLabels(IF hasStarted THEN c ELSE None, hasStarted,
                                        wallImage, wallDimensions, ppi, artPieces)
                      ELSE rendered
  /\ last' = Did("resize")
  /\ Tick
  /\ UNCHANGED <<page, hasStarted, recentRooms, db, saves, wallImage, loading, wallDimensions, ppi,
                 floorY, calibratedFor, isCalibrating, artPieces, gridVariant, gridCalls, mosaicVariant, scan, upload,
                 isScanningRoom, hvars, evars, xvars>>

loadRoom ==
  /\ clock < MaxSteps
  /\ hasStarted
  /\ \E k \in 1..Len(recentRooms) :
       LET room == recentRooms[k]
           fy == Get(room, "floor_y")
       IN /\ wallImage' = Get(room, "wall_image_url")
          /\ ppi' = Get(room, "reference_ratio_ppi")
          /\ floorY' = IF fy = Undefined \/ fy = Num(0) \/ IsNaN(fy) THEN Num(0) ELSE fy
          /\ calibratedFor' = Get(room, "wall_image_url")
          /\ last' = [Did("loadRoom") EXCEPT !.room = room.id]
  /\ Tick
  /\ UNCHANGED <<page, hasStarted, recentRooms, db, saves, loading, wallDimensions, container,
                 isCalibrating, artPieces, gridVariant, gridCalls, mosaicVariant, scan, upload,
                 isScanningRoom, hvars, evars, xvars>>
  /\ Rerender

\* saveRoom and the POST /api/room it sends: the row of the room is
\* inserted first, then the rows of the pieces; a row the table refuses
\* makes the response a 500, with the row of the room kept
saveRoom ==
  /\ clock < MaxSteps
  /\ hasStarted
  /\ LET roomId == Len(db.rooms) + 1
         newRoom == [id |-> roomId, name |-> "My Gallery Wall",
                     wallImageUrl |-> ColumnOf(JsonOf(wallImage)),
                     referenceRatioPpi |-> RealColumnOf(JsonOf(ppi))]
         piecesToInsert == PieceRows(roomId, artPieces)
         ok == RowsInsertable(piecesToInsert)
     IN /\ db' = [rooms |-> Append(db.rooms, newRoom),
                  artPieces |-> IF ok THEN db.artPieces \o piecesToInsert ELSE db.artPieces]
        /\ saves' = IF ok THEN Append(saves, [room |-> roomId, ppi |-> ppi, floorY |-> floorY,
                                              artPieces |-> artPieces])
                    ELSE saves
        /\ last' = IF ok THEN Alerted(Did("saveRoom"), "Room Saved!") ELSE Did("saveRoom")
  /\ Tick
  /\ UNCHANGED <<page, hasStarted, recentRooms, wallImage, loading, wallDimensions, container,
                 ppi, floorY, calibratedFor, isCalibrating, artPieces, gridVariant, gridCalls, mosaicVariant,
                 scan, upload, isScanningRoom, rendered, hvars, evars, xvars>>

\* the browser loads the page again: the component is mounted anew, the
\* database is what it was
Reload ==
  /\ clock < MaxSteps
  /\ hasStarted' = FALSE
  /\ recentRooms' = <<>>
  /\ wallImage' = None
  /\ loading' = {}
  /\ wallDimensions' = <<0, 0>>
  /\ ppi' = Num(0)
  /\ floorY' = Num(0)
  /\ isCalibrating' = FALSE
  /\ artPieces' = <<>>
  /\ gridVariant' = 0
  /\ gridCalls' = <<>>
  /\ mosaicVariant' = 0
  /\ scan' = None
  /\ upload' = None
  /\ calibratedFor' = None
  /\ isScanningRoom' = FALSE
  /\ rendered' = None
  /\ last' = Did("mount")
  /\ Tick
  /\ UNCHANGED <<page, db, saves, container, hvars, evars, xvars>>

\* the part of handleWallUpload that runs at once
handleWallUploadOf(files) ==
  /\ clock < MaxSteps
  /\ hasStarted
  /\ \E file \in files :
       /\ wallImage' = file
       /\ loading' = loading \cup {file}
  /\ last' = Did("handleWallUpload")
  /\ Tick
  /\ UNCHANGED <<page, hasStarted, recentRooms, db, saves, wallDimensions, container, ppi, floorY, calibratedFor,
                 isCalibrating, artPieces, gridVariant, gridCalls, mosaicVariant, scan, upload,
                 isScanningRoom, hvars, evars, xvars>>
  /\ Rerender

handleWallUpload == handleWallUploadOf(WallFiles)

\* the same with either photo
handleWallUploadEither == handleWallUploadOf(WallFiles \cup OtherWallFiles)

\* img.onload of handleWallUpload
ImageLoaded ==
  /\ clock < MaxSteps
  /\ \E url \in loading :
       /\ wallDimensions' = ImageSize(url)
       /\ loading' = loading \ {url}
  /\ isCalibrating' = TRUE
  /\ last' = Did("img.onload")
  /\ Tick
  /\ UNCHANGED <<page, hasStarted, recentRooms, db, saves, wallImage, container, ppi, floorY, calibratedFor,
                 artPieces, gridVariant, gridCalls, mosaicVariant, scan, upload, isScanningRoom,
                 hvars, evars, xvars>>
  /\ Rerender

\* the Calibrate button
OpenCalibration ==
  /\ clock < MaxSteps
  /\ hasStarted
  /\ isCalibrating' = TRUE
  /\ last' = Did("calibrate")
  /\ Tick
  /\ UNCHANGED <<page, hasStarted, recentRooms, db, saves, wallImage, loading, wallDimensions,
                 container, ppi, floorY, calibratedFor, artPieces, gridVariant, gridCalls, mosaicVariant, scan, upload,
                 isScanningRoom, hvars, evars, xvars>>
  /\ Rerender

\* the modal is shown
ModalOpen == hasStarted /\ isCalibrating /\ IsUrl(wallImage)

\* onClose of the modal: the calibration is cancelled
CloseCalibration ==
  /\ clock < MaxSteps
  /\ ModalOpen
  /\ isCalibrating' = FALSE
  /\ last' = Did("onClose")
  /\ Tick
  /\ UNCHANGED <<page, hasStarted, recentRooms, db, saves, wallImage, loading, wallDimensions,
                 container, ppi, floorY, calibratedFor, artPieces, gridVariant, gridCalls, mosaicVariant, scan, upload,
                 isScanningRoom, hvars, evars, xvars>>
  /\ Rerender

\* CalibrationModal.handleFinish with a valid length typed, the floor line
\* where handleCornersConfirm put it, then handleCalibrationSave and onClose
handleFinish ==
  /\ clock < MaxSteps
  /\ ModalOpen
  /\ \E size \in ModalSizes, inches \in TypedInches, linePx \in LineLengthsPx :
       LET renderedWidth == size[1]
           intrinsicWidth == wallDimensions[1]
           floorLine == FMul(Num(size[2]), Frac(9, 10))
           scaleFactor == FDiv(Num(renderedWidth), Num(intrinsicWidth))
           intrinsicLineLengthPx == FDiv(linePx, scaleFactor)
       IN IF renderedWidth = 0 \/ intrinsicWidth = 0
          THEN /\ ppi' = Num(1)
               /\ floorY' = Num(wallDimensions[2])
          ELSE /\ ppi' = calculatePixelsPerInch(intrinsicLineLengthPx, inches)
               /\ floorY' = FDiv(floorLine, scaleFactor)
  /\ calibratedFor' = wallImage
  /\ isCalibrating' = FALSE
  /\ last' = Did("handleCalibrationSave")
  /\ Tick
  /\ UNCHANGED <<page, hasStarted, recentRooms, db, saves, wallImage, loading, wallDimensions,
                 container, artPieces, gridVariant, gridCalls, mosaicVariant, scan, upload,
                 isScanningRoom, hvars, evars, xvars>>
  /\ Rerender

\* ArtUploader.handleFileChange to its first await: onArtProcessed is the
\* handleArtProcessed of the render that showed the input, with the
\* artPieces and the ppi of that render.  The input is disabled while a
\* file is processed.
handleFileChange ==
  /\ clock < MaxSteps
  /\ hasStarted
  /\ upload = None
  /\ Len(artPieces) < MaxPieces
  /\ upload' = [artPieces |-> artPieces, ppi |-> ppi]
  /\ last' = Did("handleFileChange")
  /\ Tick
  /\ UNCHANGED <<page, hasStarted, recentRooms, db, saves, wallImage, loading, wallDimensions,
                 container, ppi, floorY, calibratedFor, isCalibrating, artPieces, gridVariant,
                 gridCalls, mosaicVariant, scan, isScanningRoom, rendered, hvars, evars, xvars>>

\* the background is removed (or the removal failed) and handleFileChange
\* calls onArtProcessed(url)
handleArtProcessed ==
  /\ clock < MaxSteps
  /\ upload # None
  /\ LET defaultWidthPx == IF FGt(ToNumber(upload.ppi), Num(0)) THEN FMul(Num(20), upload.ppi)
                           ELSE Num(150)
     IN artPieces' = Append(upload.artPieces,
                            Piece(clock, Num(50), Num(50), defaultWidthPx,
                                  FMul(defaultWidthPx, Frac(3, 2))))
  /\ upload' = None
  /\ last' = Writes(Did("handleArtProcessed"), upload.artPieces)
  /\ Tick
  /\ UNCHANGED <<page, hasStarted, recentRooms, db, saves, wallImage, loading, wallDimensions,
                 container, ppi, floorY, calibratedFor, isCalibrating, gridVariant, gridCalls,
                 mosaicVariant, scan, isScanningRoom, hvars, evars, xvars>>
  /\ Rerender

\* the pieces are on the screen
PiecesShown == hasStarted /\ IsUrl(wallImage)

\* the delete button of a piece
DeletePiece ==
  /\ clock < MaxSteps
  /\ PiecesShown
  /\ \E i \in 1..Len(artPieces) :
       artPieces' = SelectSeq(artPieces, LAMBDA a : a.id # artPieces[i].id)
  /\ last' = Did("delete")
  /\ Tick
  /\ UNCHANGED <<page, hasStarted, recentRooms, db, saves, wallImage, loading, wallDimensions,
                 container, ppi, floorY, calibratedFor, isCalibrating, gridVariant, gridCalls, mosaicVariant,
                 scan, upload, isScanningRoom, hvars, evars, xvars>>
  /\ Rerender

onDragStop ==
  /\ clock < MaxSteps
  /\ PiecesShown
  /\ \E i \in 1..Len(artPieces), d \in DragPositions :
       artPieces' = [j \in 1..Len(artPieces) |->
                       IF artPieces[j].id = artPieces[i].id
                       THEN [artPieces[j] EXCEPT !.x = d[1], !.y = d[2]]
                       ELSE artPieces[j]]
  /\ last' = Did("onDragStop")
  /\ Tick
  /\ UNCHANGED <<page, hasStarted, recentRooms, db, saves, wallImage, loading, wallDimensions,
                 container, ppi, floorY, calibratedFor, isCalibrating, gridVariant, gridCalls, mosaicVariant,
                 scan, upload, isScanningRoom, hvars, evars, xvars>>
  /\ Rerender

\* the size is that of the element, the position where the resize left it
onResizeStop ==
  /\ clock < MaxSteps
  /\ PiecesShown
  /\ \E i \in 1..Len(artPieces), sz \in ResizeSizes :
       \E position \in DragPositions \cup {<<artPieces[i].x, artPieces[i].y>>} :
         artPieces' = [j \in 1..Len(artPieces) |->
                         IF artPieces[j].id = artPieces[i].id
                         THEN [artPieces[j] EXCEPT !.width = sz[1], !.height = sz[2],
                                                   !.x = position[1], !.y = position[2]]
                         ELSE artPieces[j]]
  /\ last' = Did("onResizeStop")
  /\ Tick
  /\ UNCHANGED <<page, hasStarted, recentRooms, db, saves, wallImage, loading, wallDimensions,
                 container, ppi, floorY, calibratedFor, isCalibrating, gridVariant, gridCalls, mosaicVariant,
                 scan, upload, isScanningRoom, hvars, evars, xvars>>
  /\ Rerender

nudge ==
  /\ clock < MaxSteps
  /\ hasStarted
  /\ \E d \in {<<0, -10>>, <<0, 10>>, <<-10, 0>>, <<10, 0>>} :
       artPieces' = Shift(artPieces, Num(d[1]), Num(d[2]))
  /\ last' = Did("nudge")
  /\ Tick
  /\ UNCHANGED <<page, hasStarted, recentRooms, db, saves, wallImage, loading, wallDimensions,
                 container, ppi, floorY, calibratedFor, isCalibrating, gridVariant, gridCalls, mosaicVariant,
                 scan, upload, isScanningRoom, hvars, evars, xvars>>
  /\ Rerender

\* the frame of a layout handler: it sets artPieces and nothing else of the
\* calibration
LayoutFrame ==
  UNCHANGED <<page, hasStarted, recentRooms, db, saves, wallImage, loading, wallDimensions,
              container, ppi, floorY, calibratedFor, isCalibrating, scan, upload, isScanningRoom,
              hvars, evars, xvars>>

handleLayoutSelect ==
  /\ clock < MaxSteps
  /\ hasStarted
  /\ \E template \in SelectableTemplates :
       LET activePPI == getEffectivePPI(Ref, ppi, wallDimensions)
           width == Num(getCanvasSize(Ref, wallDimensions)[1])
           height == IF page = "page.tsx"
                     THEN Num(getCanvasSize(Ref, wallDimensions)[2])
                     ELSE (IF Ref # None THEN Num(Ref[2]) ELSE Num(0))
           centerLineY == getCenterLineY(page, Ref, wallDimensions, floorY, activePPI, height)
           centerX == FDiv(width, Num(2))
           estimatedTop == FSub(centerLineY, FMul(Num(15), activePPI))
           config == [startX |-> IF template \in {"row", "big-center"} THEN centerX
                                 ELSE FSub(FDiv(width, Num(2)), FMul(Num(20), activePPI)),
                      startY |-> FMax(Num(20), estimatedTop),
                      gapInches |-> Num(3),
                      ppi |-> activePPI,
                      wallWidth |-> width]
       IN /\ artPieces' = TemplateOf(artPieces, template, config)
          /\ last' = Computed("handleLayoutSelect", Ref, ppi, wallDimensions, floorY,
                              height, centerLineY, TRUE)
  /\ Tick
  /\ UNCHANGED <<gridVariant, gridCalls, mosaicVariant>>
  /\ LayoutFrame
  /\ Rerender

\* the 57" Center button
apply57InchRule ==
  /\ clock < MaxSteps
  /\ hasStarted
  /\ LET height == Num(getCanvasSize(Ref, wallDimensions)[2])
         activePPI == getEffectivePPI(Ref, ppi, wallDimensions)
         centerLineY == getCenterLineY(page, Ref, wallDimensions, floorY, activePPI, height)
     IN IF height = Num(0)
        THEN /\ artPieces' = artPieces
             /\ last' = Did("apply57InchRule")
        ELSE /\ artPieces' = CenterOn(artPieces, centerLineY)
             /\ last' = Computed("apply57InchRule", Ref, ppi, wallDimensions, floorY,
                                 height, centerLineY, TRUE)
  /\ Tick
  /\ UNCHANGED <<gridVariant, gridCalls, mosaicVariant>>
  /\ LayoutFrame
  /\ Rerender

\* page.tsx defines autoArrange, applyGrid and applyMosaic; its JSX binds
\* no control to them
autoArrange ==
  /\ clock < MaxSteps
  /\ page = "page.tsx" /\ hasStarted
  /\ LET activePPI == getEffectivePPI(Ref, ppi, wallDimensions)
         height == Num(getCanvasSize(Ref, wallDimensions)[2])
         updated == UniformOf(artPieces, FMul(Num(10), activePPI), Num(3), activePPI)
         centerLineY == getCenterLineY(page, Ref, wallDimensions, floorY, activePPI, height)
     IN /\ artPieces' = CenterOn(updated, centerLineY)
        /\ last' = Computed("autoArrange", Ref, ppi, wallDimensions, floorY,
                            height, centerLineY, FALSE)
  /\ Tick
  /\ UNCHANGED <<gridVariant, gridCalls, mosaicVariant>>
  /\ LayoutFrame
  /\ Rerender

\* an applyGrid that arranges with the variant of the render, not the next
applyGridStale ==
  /\ clock < MaxSteps
  /\ page = "page.tsx" /\ hasStarted
  /\ LET activePPI == getEffectivePPI(Ref, ppi, wallDimensions)
         width == Num(getCanvasSize(Ref, wallDimensions)[1])
         height == Num(getCanvasSize(Ref, wallDimensions)[2])
         nextVariant == (gridVariant + 1) % 3
         startX == FSub(FDiv(width, Num(2)), FMul(Num(30), activePPI))
         centerLineY == getCenterLineY(page, Ref, wallDimensions, floorY, activePPI, height)
         startY0 == FSub(centerLineY, FMul(Num(15), activePPI))
         startY == IF FLt(startY0, Num(20)) THEN Num(20) ELSE startY0
         safeStartX == FMax(Num(20), startX)
     IN /\ gridVariant' = nextVariant
        /\ gridCalls' = Append(gridCalls, gridVariant)
        /\ artPieces' = GridOf(artPieces, safeStartX, startY, Num(3), activePPI, gridVariant)
        /\ last' = Computed("applyGrid", Ref, ppi, wallDimensions, floorY,
                            height, centerLineY, TRUE)
  /\ Tick
  /\ UNCHANGED mosaicVariant
  /\ LayoutFrame
  /\ Rerender

applyGrid ==
  /\ clock < MaxSteps
  /\ page = "page.tsx" /\ hasStarted
  /\ LET activePPI == getEffectivePPI(Ref, ppi, wallDimensions)
         width == Num(getCanvasSize(Ref, wallDimensions)[1])
         height == Num(getCanvasSize(Ref, wallDimensions)[2])
         nextVariant == (gridVariant + 1) % 3
         startX == FSub(FDiv(width, Num(2)), FMul(Num(30), activePPI))
         centerLineY == getCenterLineY(page, Ref, wallDimensions, floorY, activePPI, height)
         startY0 == FSub(centerLineY, FMul(Num(15), activePPI))
         startY == IF FLt(startY0, Num(20)) THEN Num(20) ELSE startY0
         safeStartX == FMax(Num(20), startX)
     IN /\ gridVariant' = nextVariant
        /\ gridCalls' = Append(gridCalls, nextVariant)
        /\ artPieces' = GridOf(artPieces, safeStartX, startY, Num(3), activePPI, nextVariant)
        /\ last' = Computed("applyGrid", Ref, ppi, wallDimensions, floorY,
                            height, centerLineY, TRUE)
  /\ Tick
  /\ UNCHANGED mosaicVariant
  /\ LayoutFrame
  /\ Rerender

applyMosaic ==
  /\ clock < MaxSteps
  /\ page = "page.tsx" /\ hasStarted
  /\ LET activePPI == getEffectivePPI(Ref, ppi, wallDimensions)
         width == Num(getCanvasSize(Ref, wallDimensions)[1])
         height == Num(getCanvasSize(Ref, wallDimensions)[2])
         nextVariant == (mosaicVariant + 1) % 3
         centerLineY == getCenterLineY(page, Ref, wallDimensions, floorY, activePPI, height)
         centerY1 == IF FLt(centerLineY, FMul(height, Frac(1, 5)))
                     THEN FMul(height, Frac(3, 10)) ELSE centerLineY
         centerY == IF FGt(centerY1, FMul(height, Frac(4, 5)))
                    THEN FMul(height, Frac(1, 2)) ELSE centerY1
     IN /\ mosaicVariant' = nextVariant
        /\ artPieces' = MosaicOf(artPieces, FDiv(width, Num(2)), centerY, Num(3),
                                 activePPI, nextVariant)
        /\ last' = Computed("applyMosaic", Ref, ppi, wallDimensions, floorY,
                            height, centerLineY, TRUE)
  /\ Tick
  /\ UNCHANGED <<gridVariant, gridCalls>>
  /\ LayoutFrame
  /\ Rerender

\* handleSuggestSpot up to its first await; what it reads of the state
\* later is what its closure holds
handleSuggestSpot ==
  /\ clock < MaxSteps
  /\ page = "part_001" /\ hasStarted
  /\ ~isScanningRoom
  /\ isScanningRoom' = TRUE
  /\ scan' = [artPieces |-> artPieces, ppi |-> ppi, wallDimensions |-> wallDimensions]
  /\ UNCHANGED upload
  /\ last' = Did("handleSuggestSpot")
  /\ Tick
  /\ UNCHANGED <<page, hasStarted, recentRooms, db, saves, wallImage, loading, wallDimensions,
                 container, ppi, floorY, calibratedFor, isCalibrating, artPieces, gridVariant,
                 gridCalls, mosaicVariant, hvars, evars, xvars>>
  /\ Rerender

\* handleSuggestSpot after the detection: the anchor is what
\* findPrimaryAnchor made of the objects detected; threw is whether an
\* awaited call rejected
SuggestSpotResumes ==
  /\ scan # None
  /\ \E anchor \in Anchors, threw \in BOOLEAN :
       LET imgElement == hasStarted /\ IsUrl(wallImage)
           its == scan.artPieces
           activePPI == getEffectivePPI(Ref, scan.ppi, scan.wallDimensions)
           minY == LeastOf([i \in 1..Len(its) |-> its[i].y], 1, PosInf)
           maxY == GreatestOf([i \in 1..Len(its) |-> FAdd(its[i].y, its[i].height)], 1, NegInf)
           groupHeight == FSub(maxY, minY)
           target == calculateAIHangPoint(anchor, activePPI, groupHeight)
           currentMinX == LeastOf([i \in 1..Len(its) |-> its[i].x], 1, PosInf)
           currentMaxX == GreatestOf([i \in 1..Len(its) |-> FAdd(its[i].x, its[i].width)], 1, NegInf)
           currentCenterX == FDiv(FAdd(currentMinX, currentMaxX), Num(2))
           currentCenterY == FDiv(FAdd(minY, maxY), Num(2))
           dx == FSub(target.x, currentCenterX)
           dy == FSub(target.y, currentCenterY)
       IN IF ~imgElement \/ threw
          THEN /\ artPieces' = artPieces
               /\ last' = Alerted(Did("handleSuggestSpot"), "Scan Failed")
          ELSE IF anchor = None
          THEN /\ artPieces' = artPieces
               /\ last' = Alerted(Did("handleSuggestSpot"), "No Furniture Detected")
          ELSE IF its = <<>>
          THEN /\ artPieces' = artPieces
               /\ last' = Alerted(Did("handleSuggestSpot"), "No Art Found")
          ELSE /\ artPieces' = Shift(its, dx, dy)
               /\ last' = Writes(Alerted(Computed("handleSuggestSpot", Ref, scan.ppi,
                                                   scan.wallDimensions, floorY, None, None,
                                                   FALSE),
                                          "Perfect Spot Found!"), its)
  /\ isScanningRoom' = FALSE
  /\ scan' = None
  /\ UNCHANGED upload
  /\ Tick
  /\ UNCHANGED <<page, hasStarted, recentRooms, db, saves, wallImage, loading, wallDimensions,
                 container, ppi, floorY, calibratedFor, isCalibrating, gridVariant, gridCalls, mosaicVariant,
                 hvars, evars, xvars>>
  /\ Rerender

\* Number.prototype.toFixed(1): the sign and the tenths nearest to the
\* magnitude, the larger of two that are as near; 'NaN' and 'Infinity' for
\* the numbers that are not finite
ToFixed1(v) ==
  IF IsNaN(v) THEN <<"NaN">>
  ELSE IF ~IsFinite(v) THEN <<IF v[1] < 0 THEN "-Infinity" ELSE "Infinity">>
  ELSE <<IF v[1] < 0 THEN "-" ELSE "", (20 * Abs(v[1]) + v[2]) \div (2 * v[2])>>

\* the label the render puts on a piece: inches from the left and from the
\* floor, with the scale, the ppi and the container the render read
LiveLabel(art) ==
  LET clientHeight == IF rendered.ref # None /\ rendered.ref[2] # 0
                      THEN Num(rendered.ref[2])
                      ELSE Num(rendered.wallDimensions[2])
      effectiveFloorY == IF FGt(ToNumber(floorY), Num(0))
                         THEN FMul(ToNumber(floorY), rendered.scale)
                         ELSE clientHeight
      centerX == FAdd(art.x, FDiv(art.width, Num(2)))
      centerY == FAdd(art.y, FDiv(art.height, Num(2)))
  IN [inchesFromLeft |-> ToFixed1(FDiv(centerX, rendered.activePPI)),
      inchesFromFloor |-> ToFixed1(FDiv(FSub(effectiveFloorY, centerY), rendered.activePPI))]

\* LayoutEngine.pixelsToInches on the numbers of the page
InchesOf(pixels, p) == IF p = Num(0) THEN Num(0) ELSE FDiv(pixels, p)

\* the row generateHangingGuide writes for a piece
GuideRow(item, p, wallHeightPixels) ==
  LET centerXPixels == FAdd(item.x, FDiv(item.width, Num(2)))
      centerYPixels == FAdd(item.y, FDiv(item.height, Num(2)))
      pixelsFromBottom == FSub(wallHeightPixels, centerYPixels)
  IN [inchesFromLeft |-> ToFixed1(InchesOf(centerXPixels, p)),
      inchesFromFloor |-> ToFixed1(InchesOf(pixelsFromBottom, p))]

\* downloadGuide: ppi || 10 and wallDimensions.height || 800 are handed to
\* generateHangingGuide with the pieces
downloadGuide ==
  /\ clock < MaxSteps
  /\ hasStarted
  /\ LET p == IF ~Truthy(ToNumber(ppi)) THEN Num(10) ELSE ppi
         wallHeightPixels == IF wallDimensions[2] = 0 THEN Num(800)
                             ELSE Num(wallDimensions[2])
     IN last' = [Did("downloadGuide") EXCEPT
                   !.guide = [i \in 1..Len(artPieces) |->
                                GuideRow(artPieces[i], p, wallHeightPixels)]]
  /\ Tick
  /\ UNCHANGED <<page, hasStarted, recentRooms, db, saves, wallImage, loading, wallDimensions,
                 container, ppi, floorY, calibratedFor, isCalibrating, artPieces, gridVariant, gridCalls,
                 mosaicVariant, scan, upload, isScanningRoom, rendered, hvars, evars, xvars>>

AppNext ==
  \/ RoomsFetched
  \/ Start
  \/ GoHome
  \/ Resize
  \/ loadRoom
  \/ handleWallUpload
  \/ ImageLoaded
  \/ OpenCalibration
  \/ CloseCalibration
  \/ handleFinish
  \/ handleFileChange
  \/ handleArtProcessed
  \/ DeletePiece
  \/ onDragStop
  \/ onResizeStop
  \/ nudge
  \/ handleLayoutSelect
  \/ apply57InchRule
  \/ autoArrange
  \/ applyGrid
  \/ applyMosaic
  \/ handleSuggestSpot
  \/ SuggestSpotResumes
  \/ downloadGuide

-----------------------------------------------------------------------------
(* CalibrationModal: the wizard that measures the wall.  The position of   *)
(* the ruler, the perspective corners and the magnifier are left out: no   *)
(* handler reads them to decide a step, the length or a call of onSave.    *)

MaxTrail == 7     \* values step takes while the modal is open

\* the text of the length input, one character per element
TypedTexts == { <<>>, <<"0">>, <<"-", "3">>, <<"3", "6">>, <<"4", ".", "5">>, <<".", "5">> }

RulerWidths == {100, 200}
FloorLines == {Num(120)}
ModalContainer == <<320, 240>>
ModalImageSizes == {<<640, 480>>, <<0, 0>>}

DigitChars == <<"0", "1", "2", "3", "4", "5", "6", "7", "8", "9">>
IsDigit(c) == \E k \in 1..10 : DigitChars[k] = c
DigitOf(c) == (CHOOSE k \in 1..10 : DigitChars[k] = c) - 1

RECURSIVE Pow10(_)
Pow10(k) == IF k = 0 THEN 1 ELSE 10 * Pow10(k - 1)

\* the run of decimal digits of s that starts at index i: its value, its
\* length and the index after it
RECURSIVE DigitRun(_, _, _, _)
DigitRun(s, i, value, count) ==
  IF i <= Len(s) /\ IsDigit(s[i])
  THEN DigitRun(s, i + 1, 10 * value + DigitOf(s[i]), count + 1)
  ELSE [value |-> value, count |-> count, next |-> i]

\* JavaScript's parseFloat on a text without white space and exponent: an
\* optional sign, digits, an optional point and digits; the longest such
\* prefix counts, and NaN results if it holds no digit
parseFloat(s) ==
  LET signed == Len(s) > 0 /\ s[1] \in {"-", "+"}
      whole == DigitRun(s, IF signed THEN 2 ELSE 1, 0, 0)
      point == whole.next <= Len(s) /\ s[whole.next] = "."
      part == IF point THEN DigitRun(s, whole.next + 1, 0, 0)
              ELSE [value |-> 0, count |-> 0, next |-> whole.next]
      n == whole.value * Pow10(part.count) + part.value
  IN IF whole.count + part.count = 0 THEN <<0, 0>>
     ELSE Frac(IF signed /\ s[1] = "-" THEN 0 - n ELSE n, Pow10(part.count))

\* what handleValidInchInput returns: !inches is true of NaN and of 0
handleValidInchInput(text) ==
  LET inches == parseFloat(text)
  IN ~(IsNaN(inches) \/ inches = Num(0) \/ ~FGt(inches, Num(0)))

setStep(s) ==
  /\ Len(trail) < MaxTrail
  /\ step' = s
  /\ trail' = Append(trail, s)

\* the modal as it is mounted
MInit ==
  /\ wallImageDimensions \in ModalImageSizes
  /\ step = "select-method"
  /\ method = "null"
  /\ standardObjectType = "null"
  /\ lineLengthPx = 200
  /\ realLengthInches = <<>>
  /\ modalFloorY = Num(0)
  /\ lengthAlert = FALSE
  /\ trail = <<"select-method">>
  /\ onSaveCalls = <<>>
  /\ closed = FALSE

\* no modal is mounted
MIdle ==
  /\ wallImageDimensions = <<0, 0>>
  /\ step = "select-method"
  /\ method = "null"
  /\ standardObjectType = "null"
  /\ lineLengthPx = 200
  /\ realLengthInches = <<>>
  /\ modalFloorY = Num(0)
  /\ lengthAlert = FALSE
  /\ trail = <<>>
  /\ onSaveCalls = <<>>
  /\ closed = TRUE

MRest == UNCHANGED <<hvars, evars, avars, dvars>>

\* one of the three method cards, shown while method is null
handleMethodSelect ==
  /\ ~closed /\ step = "select-method" /\ method = "null"
  /\ \E selectedMethod \in {"furniture", "standard", "tape"} :
       /\ method' = selectedMethod
       /\ IF selectedMethod = "standard"
          THEN UNCHANGED <<step, trail, realLengthInches>>
          ELSE setStep("calibrate") /\ realLengthInches' = <<>>
  /\ lengthAlert' = FALSE
  /\ UNCHANGED <<wallImageDimensions, standardObjectType, lineLengthPx, modalFloorY,
                 onSaveCalls, closed>>
  /\ MRest

\* one of the three object cards, shown while method is set
handleStandardObjectSelect ==
  /\ ~closed /\ step = "select-method" /\ method # "null"
  /\ \E type \in {"switch", "door", "custom"} :
       /\ standardObjectType' = type
       /\ realLengthInches' = CASE type = "switch" -> <<"4", ".", "5">>
                                [] type = "door" -> <<"8", "0">>
                                [] type = "custom" -> <<>>
  /\ setStep("calibrate")
  /\ lengthAlert' = FALSE
  /\ UNCHANGED <<wallImageDimensions, method, lineLengthPx, modalFloorY, onSaveCalls, closed>>
  /\ MRest

\* Back under the object cards
MethodBack ==
  /\ ~closed /\ step = "select-method" /\ method # "null"
  /\ method' = "null"
  /\ lengthAlert' = FALSE
  /\ UNCHANGED <<wallImageDimensions, step, standardObjectType, lineLengthPx,
                 realLengthInches, modalFloorY, trail, onSaveCalls, closed>>
  /\ MRest

\* the close button of the method selection
ModalClose ==
  /\ ~closed /\ step = "select-method"
  /\ closed' = TRUE
  /\ lengthAlert' = FALSE
  /\ UNCHANGED <<wallImageDimensions, step, method, standardObjectType, lineLengthPx,
                 realLengthInches, modalFloorY, trail, onSaveCalls>>
  /\ MRest

\* Change Method, in the head of the workspace at every step of it
ChangeMethod ==
  /\ ~closed /\ step # "select-method"
  /\ setStep("select-method")
  /\ lengthAlert' = FALSE
  /\ UNCHANGED <<wallImageDimensions, method, standardObjectType, lineLengthPx,
                 realLengthInches, modalFloorY, onSaveCalls, closed>>
  /\ MRest

\* onResize of the ruler
RulerResized ==
  /\ ~closed /\ step = "calibrate"
  /\ \E width \in RulerWidths \ {lineLengthPx} : lineLengthPx' = width
  /\ lengthAlert' = FALSE
  /\ UNCHANGED <<wallImageDimensions, step, method, standardObjectType, realLengthInches,
                 modalFloorY, trail, onSaveCalls, closed>>
  /\ MRest

\* onChange of the length input; the input is disabled for a switch and a door
LengthTyped ==
  /\ ~closed /\ step = "calibrate"
  /\ ~(method = "standard" /\ standardObjectType # "custom")
  /\ \E text \in TypedTexts \ {realLengthInches} : realLengthInches' = text
  /\ lengthAlert' = FALSE
  /\ UNCHANGED <<wallImageDimensions, step, method, standardObjectType, lineLengthPx,
                 modalFloorY, trail, onSaveCalls, closed>>
  /\ MRest

\* Back at calibrate, Adjust at verify, Back at set-corners and at set-floor
StepBack ==
  /\ ~closed
  /\ step \in {"calibrate", "verify", "set-corners", "set-floor"}
  /\ setStep(CASE step = "calibrate" -> "select-method"
               [] step = "verify" -> "calibrate"
               [] step = "set-corners" -> "verify"
               [] step = "set-floor" -> "set-corners")
  /\ lengthAlert' = FALSE
  /\ UNCHANGED <<wallImageDimensions, method, standardObjectType, lineLengthPx,
                 realLengthInches, modalFloorY, onSaveCalls, closed>>
  /\ MRest

\* Next at calibrate, without the check of the length
handleCalibrateUnchecked ==
  /\ ~closed /\ step = "calibrate"
  /\ setStep("verify")
  /\ lengthAlert' = FALSE
  /\ UNCHANGED <<wallImageDimensions, method, standardObjectType, lineLengthPx,
                 realLengthInches, modalFloorY, onSaveCalls, closed>>
  /\ MRest

\* Next at calibrate
handleCalibrate ==
  /\ ~closed /\ step = "calibrate"
  /\ IF handleValidInchInput(realLengthInches)
     THEN setStep("verify") /\ lengthAlert' = FALSE
     ELSE lengthAlert' = TRUE /\ UNCHANGED <<step, trail>>
  /\ UNCHANGED <<wallImageDimensions, method, standardObjectType, lineLengthPx,
                 realLengthInches, modalFloorY, onSaveCalls, closed>>
  /\ MRest

\* Next at verify
handleVerifyConfirm ==
  /\ ~closed /\ step = "verify"
  /\ setStep("set-corners")
  /\ lengthAlert' = FALSE
  /\ UNCHANGED <<wallImageDimensions, method, standardObjectType, lineLengthPx,
                 realLengthInches, modalFloorY, onSaveCalls, closed>>
  /\ MRest

\* Next at set-corners
handleCornersConfirm ==
  /\ ~closed /\ step = "set-corners"
  /\ setStep("set-floor")
  /\ modalFloorY' = FMul(Num(ModalContainer[2]), Frac(9, 10))
  /\ lengthAlert' = FALSE
  /\ UNCHANGED <<wallImageDimensions, method, standardObjectType, lineLengthPx,
                 realLengthInches, onSaveCalls, closed>>
  /\ MRest

\* the floor line is dragged
FloorLineDragged ==
  /\ ~closed /\ step = "set-floor"
  /\ \E y \in FloorLines \ {modalFloorY} : modalFloorY' = y
  /\ lengthAlert' = FALSE
  /\ UNCHANGED <<wallImageDimensions, step, method, standardObjectType, lineLengthPx,
                 realLengthInches, trail, onSaveCalls, closed>>
  /\ MRest

\* Finish at set-floor: handleFinish of the modal
ModalFinish ==
  /\ ~closed /\ step = "set-floor"
  /\ IF ~handleValidInchInput(realLengthInches)
     THEN lengthAlert' = TRUE /\ UNCHANGED <<onSaveCalls, closed>>
     ELSE
       LET renderedWidth == ModalContainer[1]
           intrinsicWidth == wallImageDimensions[1]
           scaleFactor == Frac(renderedWidth, intrinsicWidth)
           intrinsicPpi == calculatePixelsPerInch(FDiv(Num(lineLengthPx), scaleFactor),
                                                  parseFloat(realLengthInches))
           call == IF renderedWidth = 0 \/ intrinsicWidth = 0
                   THEN [ppi |-> Num(1), floorY |-> Num(wallImageDimensions[2]),
                         length |-> realLengthInches]
                   ELSE [ppi |-> intrinsicPpi, floorY |-> FDiv(modalFloorY, scaleFactor),
                         length |-> realLengthInches]
       IN /\ onSaveCalls' = Append(onSaveCalls, call)
          /\ closed' = TRUE
          /\ lengthAlert' = FALSE
  /\ UNCHANGED <<wallImageDimensions, step, method, standardObjectType, lineLengthPx,
                 realLengthInches, modalFloorY, trail>>
  /\ MRest

ModalNext ==
  \/ handleMethodSelect
  \/ handleStandardObjectSelect
  \/ MethodBack
  \/ ModalClose
  \/ ChangeMethod
  \/ RulerResized
  \/ LengthTyped
  \/ StepBack
  \/ handleCalibrate
  \/ handleVerifyConfirm
  \/ handleCornersConfirm
  \/ FloorLineDragged
  \/ ModalFinish

-----------------------------------------------------------------------------
(* ObjectDetection: the module-level model and the async functions         *)
(* loadModel and detect.  A call runs to its first await at once; what     *)
(* follows an await is a step of its own, so that calls interleave as the  *)
(* event loop lets them.                                                   *)

MaxTasks == 3     \* calls of loadModel and detect

Loaded == <<"coco-ssd">>

\* a call: the function, where it stands, its result, and whether a load was
\* in flight when it was made
Task(kind, pc, result) ==
  [kind |-> kind, pc |-> pc, result |-> result, duringLoad |-> isLoading]

\* where a call stands after the loadModel it runs has returned
AfterLoad(task) ==
  IF task.kind = "loadModel" THEN [task EXCEPT !.pc = "done", !.result = "void"]
  ELSE [task EXCEPT !.pc = "after-load"]

DInit ==
  /\ model = None
  /\ isLoading = FALSE
  /\ tasks = <<>>
  /\ loads = 0

DIdle == DInit

XIdle == MIdle /\ DIdle

DRest == UNCHANGED <<hvars, evars, avars, mvars>>

\* loadModel is called: up to await tf.ready()
loadModel ==
  /\ Len(tasks) < MaxTasks
  /\ IF model # None \/ isLoading
     THEN /\ tasks' = Append(tasks, Task("loadModel", "done", "void"))
          /\ UNCHANGED isLoading
     ELSE /\ tasks' = Append(tasks, Task("loadModel", "ready", "pending"))
          /\ isLoading' = TRUE
  /\ UNCHANGED <<model, loads>>
  /\ DRest

\* detect is called: up to its first await, which is that of the loadModel
\* it calls while there is no model, else that of model.detect
detect ==
  /\ Len(tasks) < MaxTasks
  /\ IF model # None
     THEN /\ tasks' = Append(tasks, Task("detect", "detect", "pending"))
          /\ UNCHANGED isLoading
     ELSE IF isLoading
     THEN /\ tasks' = Append(tasks, Task("detect", "after-load", "pending"))
          /\ UNCHANGED isLoading
     ELSE /\ tasks' = Append(tasks, Task("detect", "ready", "pending"))
          /\ isLoading' = TRUE
  /\ UNCHANGED <<model, loads>>
  /\ DRest

\* tf.ready() settles: cocoSsd.load() is started, or catch and finally run
ReadySettles ==
  \E i \in 1..Len(tasks), ok \in BOOLEAN :
    /\ tasks[i].pc = "ready"
    /\ IF ok
       THEN /\ tasks' = [tasks EXCEPT ![i].pc = "load"]
            /\ UNCHANGED isLoading
       ELSE /\ tasks' = [tasks EXCEPT ![i] = AfterLoad(tasks[i])]
            /\ isLoading' = FALSE
    /\ UNCHANGED <<model, loads>>
    /\ DRest

\* cocoSsd.load() settles: the model is assigned, or catch runs; then finally
LoadSettles ==
  \E i \in 1..Len(tasks), ok \in BOOLEAN :
    /\ tasks[i].pc = "load"
    /\ model' = IF ok THEN Loaded ELSE model
    /\ loads' = IF ok THEN loads + 1 ELSE loads
    /\ isLoading' = FALSE
    /\ tasks' = [tasks EXCEPT ![i] = AfterLoad(tasks[i])]
    /\ DRest

\* detect goes on after its await of loadModel
DetectContinues ==
  \E i \in 1..Len(tasks) :
    /\ tasks[i].pc = "after-load"
    /\ tasks' = IF model = None
                THEN [tasks EXCEPT ![i].pc = "done", ![i].result = "[]"]
                ELSE [tasks EXCEPT ![i].pc = "detect"]
    /\ UNCHANGED <<model, isLoading, loads>>
    /\ DRest

\* model.detect settles: the predictions are mapped and returned, or the
\* rejection is passed on
DetectSettles ==
  \E i \in 1..Len(tasks), ok \in BOOLEAN :
    /\ tasks[i].pc = "detect"
    /\ tasks' = [tasks EXCEPT ![i].pc = "done",
                              ![i].result = IF ok THEN "detections" ELSE "rejected"]
    /\ UNCHANGED <<model, isLoading, loads>>
    /\ DRest

DetectionNext ==
  \/ loadModel
  \/ detect
  \/ ReadySettles
  \/ LoadSettles
  \/ DetectContinues
  \/ DetectSettles

-----------------------------------------------------------------------------
(* Specifications.                                                         *)

HNext == Construct \/ ToFlat \/ ToDistorted

InitHomography == HInit /\ EIdle /\ AIdle /\ XIdle

\* one transformer, constructed and applied
SpecHomography == InitHomography /\ [][HNext]_vars

InitLayout == HIdle /\ EInit /\ AIdle /\ XIdle

\* one layout call on an array
SpecLayout == InitLayout /\ [][LayoutNext]_vars

InitUnits == HIdle /\ EIdle /\ AIdle /\ XIdle

\* unit conversions, one after the other
SpecUnits == InitUnits /\ [][UnitsNext]_vars

Init == HIdle /\ EIdle /\ AInit /\ XIdle

Next == AppNext

\* a session of the page component
Spec == Init /\ [][Next]_vars

\* pieces on the wall: none, one that was dragged and resized, and with it
\* one as handleArtProcessed adds it before a calibration
PlacedPieces ==
  { <<>>,
    << Piece(1, Num(100), Num(200), Num(100), Num(150)) >>,
    << Piece(1, Num(100), Num(200), Num(100), Num(150)),
       Piece(2, Num(50), Num(50), Num(150), Num(225)) >> }

\* what handleFinish saves for the wall below, and what is there before it
SavedCalibrations == { [ppi |-> Num(0), floorY |-> Num(0)],
                       [ppi |-> Num(5), floorY |-> Num(432)] }

\* the page after Start, handleWallUpload and ImageLoaded (three events at
\* the least), the modal closed or finished, pieces placed
\* the page at time t with one of the calibrations cals
StartedPage(t, cals) ==
  /\ page \in Pages
  /\ hasStarted = TRUE
  /\ recentRooms = <<>>
  /\ db = InitialDb
  /\ saves = <<>>
  /\ wallImage \in WallFiles
  /\ loading = {}
  /\ wallDimensions = ImageSize(wallImage)
  /\ container = InitialContainer
  /\ \E cal \in cals : ppi = cal.ppi /\ floorY = cal.floorY
  /\ calibratedFor = IF ppi = Num(0) THEN None ELSE wallImage
  /\ isCalibrating = FALSE
  /\ artPieces \in PlacedPieces
  /\ gridVariant = 0
  /\ gridCalls = <<>>
  /\ mosaicVariant = 0
  /\ scan = None
  /\ upload = None
  /\ isScanningRoom = FALSE
  /\ rendered = RenderLabels(container, TRUE, wallImage, wallDimensions, ppi, artPieces)
  /\ last = Did("render")
  /\ clock = t

APlaced == StartedPage(4, SavedCalibrations)

InitPlaced == HIdle /\ EIdle /\ APlaced /\ XIdle

\* a session of the page component, from a wall with pieces on it
SpecPlaced == InitPlaced /\ [][AppNext]_vars

\* what can happen around a scan: the scan itself, the user leaving the wall
\* view and coming back, and the piece set changing under it
ScanNext ==
  \/ handleSuggestSpot
  \/ SuggestSpotResumes
  \/ GoHome
  \/ Start
  \/ onDragStop
  \/ DeletePiece
  \/ handleFileChange
  \/ handleArtProcessed

\* the promises a running handleSuggestSpot awaits settle: loadModel catches
\* its own errors, the pause is a timer, and the detection resolves or rejects
SpecScan == InitPlaced /\ [][ScanNext]_vars /\ WF_vars(SuggestSpotResumes)

\* the page over several visits: rooms are saved, the page is loaded again
\* and a saved room is opened
RoomsNext ==
  \/ saveRoom
  \/ Reload
  \/ RoomsFetched
  \/ Start
  \/ loadRoom

\* a ruler line of 200 px on 37.5 inches calibrates to 16/3 px per inch
RoomCalibrations == SavedCalibrations \cup {[ppi |-> Frac(16, 3), floorY |-> Num(432)]}

InitRooms == HIdle /\ EIdle /\ StartedPage(2, RoomCalibrations) /\ XIdle

SpecRooms == InitRooms /\ [][RoomsNext]_vars

\* the calibration modal on its own, from the moment it is mounted
InitModal == HIdle /\ EIdle /\ AIdle /\ MInit /\ DIdle

SpecModal == InitModal /\ [][ModalNext]_vars

\* the page while the wall photo is chosen, changed and calibrated
WallsNext ==
  \/ Start
  \/ handleWallUploadEither
  \/ ImageLoaded
  \/ OpenCalibration
  \/ CloseCalibration
  \/ handleFinish

SpecWalls == Init /\ [][WallsNext]_vars

\* the started page when a saved room is opened over the wall and the pieces
\* that are there, a photo is chosen again and a spot is asked for
ReopenNext ==
  \/ RoomsFetched
  \/ loadRoom
  \/ handleWallUpload
  \/ ImageLoaded
  \/ handleSuggestSpot
  \/ SuggestSpotResumes

InitReopened == HIdle /\ EIdle /\ StartedPage(3, SavedCalibrations) /\ XIdle

SpecReopened == InitReopened /\ [][ReopenNext]_vars

\* the object detection module on its own, from the moment it is imported
InitDetection == HIdle /\ EIdle /\ AIdle /\ MIdle /\ DInit

SpecDetection == InitDetection /\ [][DetectionNext]_vars

-----------------------------------------------------------------------------
(* Properties of the PerspectiveTransformer.                               *)

\* twice the signed area of the triangle p, q, r
Cross(p, q, r) ==
  FSub(FMul(FSub(q[1], p[1]), FSub(r[2], p[2])),
       FMul(FSub(q[2], p[2]), FSub(r[1], p[1])))

\* no three corners on one line (two equal corners are on a line with any third)
NonDegenerate(q) ==
  \A i, j, k \in 1..4 : (i < j /\ j < k) => Cross(q[i], q[j], q[k]) # Num(0)

AllFinite(m) == \A k \in 1..Len(m) : IsFinite(m[k])

C3_DegenerateFails ==
  (hpc # "new" /\ ~NonDegenerate(src))
  => /\ thrown = "DegenerateQuadrilateral"
     /\ matrix = None


-----------------------------------------------------------------------------
(* Properties of the LayoutEngine statics.                                 *)

\* C4 as stated: calculatePixelsPerInch returns referencePixels /
\* referenceInches when referenceInches > 0 and fails with
\* InvalidReferenceLength when referenceInches <= 0.
C4_RejectsNonPositive ==
  \A k \in CallsOf("calculatePixelsPerInch") :
    IF FGt(calls[k].args[2], Num(0))
    THEN calls[k].err = "none" /\ calls[k].ret = FDiv(calls[k].args[1], calls[k].args[2])
    ELSE calls[k].err = "InvalidReferenceLength"

\* the part of C4 the code does satisfy, reached with 200 px for 80 inches
C4_Witness ==
  \E k \in CallsOf("calculatePixelsPerInch") :
    /\ calls[k].args = <<Num(200), Num(80)>>
    /\ calls[k].ret = Frac(5, 2)

\* C5 as stated: for every value v and every ppi > 0,
\* pixelsToInches(inchesToPixels(v, ppi), ppi) = v.
C5_ScaleInvariance ==
  \A k \in CallsOf("inchesToPixels") :
    ( /\ k + 1 \in CallsOf("pixelsToInches")
      /\ calls[k + 1].args = <<calls[k].ret, calls[k].args[2]>>
      /\ DPositive(calls[k].args[2]) )
    => calls[k + 1].ret = calls[k].args[1]

\* C5, amended: for every finite v and every ratio > 0 whose product v * ratio
\* is a binary64 value (it is neither rounded nor overflows nor underflows),
\* pixelsToInches(inchesToPixels(v, ratio), ratio) = v.
C5_ExactProduct ==
  \A k \in CallsOf("inchesToPixels") :
    LET v == calls[k].args[1]
        ratio == calls[k].args[2]
    IN ( /\ k + 1 \in CallsOf("pixelsToInches")
         /\ calls[k + 1].args = <<calls[k].ret, ratio>>
         /\ DPositive(ratio)
         /\ Representable(MulBits(v.m, ToInt(ratio.m)), v.e + ratio.e) )
       => calls[k + 1].ret = v

\* 4.5 inches at 2.5 px/in are 11.25 px, and 11.25 px are 4.5 inches
C5_Witness ==
  /\ Len(calls) = 2
  /\ calls[1].op = "inchesToPixels"
  /\ calls[1].args = <<Dbl(9, -1), Dbl(5, -1)>>
  /\ calls[1].ret = Dbl(45, -2)
  /\ calls[2].op = "pixelsToInches"
  /\ calls[2].args = <<Dbl(45, -2), Dbl(5, -1)>>
  /\ calls[2].ret = Dbl(9, -1)

\* the "cover" fit of an image of intrinsic size wd in a container of size c
CoverFit(c, wd) ==
  FMax(FDiv(Num(c[1]), Num(wd[1])), FDiv(Num(c[2]), Num(wd[2])))

\* C6 as stated: the scale factor of every layout computation and of the
\* labels on the screen is max(containerW/intrinsicW, containerH/intrinsicH)
\* of the container as it is now, whatever resizes came before (the
\* intrinsic size of the image known).
C6_ScaleIsCurrentCoverFit ==
  /\ (last.scale # None /\ last.wallDimensions[1] # 0)
       => last.scale = CoverFit(container, last.wallDimensions)
  /\ (hasStarted /\ rendered # None /\ rendered.wallDimensions[1] # 0)
       => rendered.scale = CoverFit(container, rendered.wallDimensions)

\* page.tsx after a resize of the viewport: the labels on the screen are
\* those of the render before it, made with the factor of the old container
C6_Witness ==
  /\ page = "page.tsx"
  /\ last.op = "resize"
  /\ hasStarted /\ rendered # None
  /\ rendered.wallDimensions = <<640, 480>>
  /\ rendered.ref = <<1280, 960>>
  /\ container = <<960, 720>>
  /\ rendered.scale = Num(2)
  /\ CoverFit(container, rendered.wallDimensions) = Frac(3, 2)

\* C7 as stated: the effective ppi a handler computes with is ppi times the
\* scale factor whenever ppi is not 0, and containerHeight / 96 when ppi is
\* 0; it is no other value.
C7_EffectivePpi ==
  last.activePPI # None
  => IF last.ppi # Num(0)
     THEN last.activePPI = FMul(ToNumber(last.ppi), last.scale)
     ELSE /\ last.ref # None
          /\ last.activePPI = FDiv(Num(last.ref[2]), Num(96))

\* a calibration saved before the wall image has loaded: ppi is 1, and the
\* handler computes with the estimate containerHeight / 96
C7_Witness ==
  /\ last.op \in {"handleLayoutSelect", "apply57InchRule"}
  /\ last.ppi = Num(1)
  /\ last.wallDimensions = <<0, 0>>
  /\ last.scale = Num(1)
  /\ last.ref = <<1280, 960>>
  /\ last.activePPI = Num(10)

\* the handlers that reposition the pieces
RepositioningOps ==
  {"handleLayoutSelect", "apply57InchRule", "autoArrange", "applyGrid",
   "applyMosaic", "handleSuggestSpot"}

\* C8 as stated: a handler that repositions the pieces with the estimated
\* ppi tells the user so, after any sequence of wall upload, room load,
\* calibration save and calibration cancel.
C8_EstimateIsFlagged ==
  (last.op \in RepositioningOps /\ last.estimated /\ artPieces # <<>>)
  => last.warned

\* the pieces are centred by the 57" Center button with the estimate after
\* a calibration was saved (ppi is not 0), and no alert is shown
C8_Witness ==
  /\ last.op = "apply57InchRule"
  /\ artPieces # <<>>
  /\ last.ppi # Num(0) /\ last.ppi # Undefined
  /\ last.estimated
  /\ ~last.warned

\* effectiveFloorY of a handler's computation
EffectiveFloorY(c) ==
  IF FGt(c.floorY, Num(0)) THEN FMul(c.floorY, c.scale) ELSE c.canvasHeight

\* C9 as stated: the centre line of the 57" Center button is effectiveFloorY
\* less 57 inches at the effective ppi (390 with the floor unset, canvasHeight
\* 960 and ppi 10), and the button puts the vertical centre of every piece on
\* that line.
C9_EyeLevelCentre ==
  (last.op = "apply57InchRule" /\ last.centerLineY # None)
  => /\ last.centerLineY
          = FSub(EffectiveFloorY(last), FMul(Num(57), last.activePPI))
     /\ (last.floorY = Num(0) /\ last.canvasHeight = Num(960)
           /\ last.activePPI = Num(10))
          => last.centerLineY = Num(390)
     /\ \A i \in 1..Len(artPieces) :
          FAdd(artPieces[i].y, FDiv(artPieces[i].height, Num(2))) = last.centerLineY

\* part_001 with the floor unset, a canvas 960 high and 10 px per inch: the
\* pieces are centred on 360, 60 inches above the floor
C9_Witness ==
  /\ page = "part_001"
  /\ last.op = "apply57InchRule"
  /\ last.floorY = Num(0) /\ last.canvasHeight = Num(960)
  /\ last.activePPI = Num(10)
  /\ last.centerLineY = Num(360)
  /\ artPieces # <<>>
  /\ \A i \in 1..Len(artPieces) :
       FAdd(artPieces[i].y, FDiv(artPieces[i].height, Num(2))) = Num(360)

\* the array given to the call holds the objects it held, and they hold the
\* values they held
InputUnchanged ==
  /\ heap.arrays[items] = [i \in 1..Len(itemsBefore) |-> i]
  /\ Deref(heap, items) = itemsBefore

\* C10 as stated: every layout operation of LayoutEngine leaves the input
\* array and its elements unchanged and returns a new array, distinct from
\* the input array, of the same length.
C10_PureNewArray ==
  (items # 0 /\ calls # None)
  => /\ InputUnchanged
     /\ calls[1].ret # items
     /\ Len(heap.arrays[calls[1].ret]) = Len(itemsBefore)

\* the calls that return their argument: arrangeMosaic on an empty array
\* and applyTemplate with a name that has no case
ReturnsArgument(c) ==
  \/ c.op = "arrangeMosaic" /\ itemsBefore = <<>>
  \/ c.op = "applyTemplate" /\ c.args[2] \notin TemplateNames

\* what the code does do: the input is never changed, the result has the
\* length of the input, and it is a new array except in the two cases of
\* ReturnsArgument
C10_PureExceptAliases ==
  (items # 0 /\ calls # None)
  => /\ InputUnchanged
     /\ Len(heap.arrays[calls[1].ret]) = Len(itemsBefore)
     /\ (calls[1].ret = items) <=> ReturnsArgument(calls[1])

\* a mosaic of three pieces given in increasing area: the result is a new
\* array led by the largest piece, the input still in the given order
C10_Witness ==
  /\ items # 0 /\ calls # None
  /\ calls[1].op = "arrangeMosaic"
  /\ calls[1].args[2] = 0
  /\ Len(itemsBefore) = 3
  /\ Area(itemsBefore[1]) = Num(600)
  /\ Area(itemsBefore[3]) = Num(1600)
  /\ calls[1].ret # items
  /\ Deref(heap, calls[1].ret)[1].id = 3
  /\ Deref(heap, items) = itemsBefore

\* the pieces of the array a layout call returned
Result == Deref(heap, calls[1].ret)

\* C11 as stated: after every layout call the piece at each index of the
\* result has the id, the width and the height of the piece at that index
\* of the input.
C11_IdentityOrder ==
  (items # 0 /\ calls # None)
  => /\ Len(Result) = Len(itemsBefore)
     /\ \A i \in 1..Len(itemsBefore) :
          /\ Result[i].id = itemsBefore[i].id
          /\ Result[i].width = itemsBefore[i].width
          /\ Result[i].height = itemsBefore[i].height

\* the quadrant mosaic of three pieces given in increasing area: the
\* result leads with the piece that was third
C11_Witness ==
  /\ items # 0 /\ calls # None
  /\ calls[1].op = "arrangeMosaic"
  /\ calls[1].args[2] = 0
  /\ Len(itemsBefore) = 3
  /\ Area(itemsBefore[1]) = Num(600)
  /\ Area(itemsBefore[2]) = Num(600)
  /\ Area(itemsBefore[3]) = Num(1600)
  /\ Result[1].id = 3
  /\ Result[2].id = 1
  /\ Result[3].id = 2

Centred(p, cx, cy) ==
  /\ p.x = FSub(cx, FDiv(p.width, Num(2)))
  /\ p.y = FSub(cy, FDiv(p.height, Num(2)))

\* the piece of the input with the id of p
InputOf(p) == itemsBefore[CHOOSE i \in 1..Len(itemsBefore) : itemsBefore[i].id = p.id]

\* C14: after arrangeMosaic(items, centerX, centerY, gapInches, ppi, variant)
\* with variant % 3 = 0 on a non-empty array, in whatever order, a piece is
\* centred on (centerX, centerY), and a piece that is centred there is one
\* of the input than which no piece of the input has a larger width * height.
C14_MosaicAnchor ==
  ( /\ items # 0 /\ calls # None
    /\ calls[1].op = "arrangeMosaic" /\ calls[1].args[2] % 3 = 0
    /\ itemsBefore # <<>> )
  => LET centerX == calls[1].args[1].startX
         centerY == calls[1].args[1].startY
     IN /\ \E i \in 1..Len(Result) : Centred(Result[i], centerX, centerY)
        /\ \A i \in 1..Len(Result) :
             Centred(Result[i], centerX, centerY)
             => /\ InputOf(Result[i]).width = Result[i].width
                /\ InputOf(Result[i]).height = Result[i].height
                /\ \A j \in 1..Len(itemsBefore) :
                     ~FGt(Area(itemsBefore[j]), Area(InputOf(Result[i])))

\* four pieces, the largest (40 x 40) given last: it is the piece put at
\* (80, 30), centred on (100, 50)
C14_Witness ==
  /\ items # 0 /\ calls # None
  /\ calls[1].op = "arrangeMosaic" /\ calls[1].args[2] = 0
  /\ calls[1].args[1].startX = Num(100)
  /\ Len(itemsBefore) = 4
  /\ \A j \in 1..3 : Area(itemsBefore[j]) = Num(600)
  /\ Area(itemsBefore[4]) = Num(1600)
  /\ \E i \in 1..4 : /\ Result[i].id = 4
                     /\ Result[i].x = Num(80) /\ Result[i].y = Num(30)

\* what arrangeMosaic with variant 2 makes of the input of the call
MosaicStairs ==
  LET c == calls[1].args[1]
  IN arrangeMosaicItems(itemsBefore, itemsBefore, c.startX, c.startY,
                        c.gapInches, c.ppi, 2)

\* C15 as stated: applyTemplate(items, 'stairs', config) keeps the order of
\* the pieces and puts each piece 0.8 times the width of the piece before it
\* to the right and 0.5 times its height below, the offsets between pieces
\* that arrangeMosaic with variant 2 gives.
C15_StairsSameRule ==
  ( /\ items # 0 /\ calls # None
    /\ calls[1].op = "applyTemplate" /\ calls[1].args[2] = "stairs" )
  => /\ Len(Result) = Len(itemsBefore)
     /\ \A i \in 1..Len(itemsBefore) : Result[i].id = itemsBefore[i].id
     /\ \A i \in 1..(Len(itemsBefore) - 1) :
          /\ FSub(Result[i + 1].x, Result[i].x) = FMul(itemsBefore[i].width, Frac(8, 10))
          /\ FSub(Result[i + 1].y, Result[i].y) = FMul(itemsBefore[i].height, Frac(5, 10))
          /\ FSub(Result[i + 1].x, Result[i].x)
               = FSub(MosaicStairs[i + 1].x, MosaicStairs[i].x)
          /\ FSub(Result[i + 1].y, Result[i].y)
               = FSub(MosaicStairs[i + 1].y, MosaicStairs[i].y)

\* two pieces, the first 20 wide and 30 high, with a gap of 30: the template
\* puts the second 50 to the right and 15 below, the mosaic 16 and 15
C15_Witness ==
  /\ items # 0 /\ calls # None
  /\ calls[1].op = "applyTemplate" /\ calls[1].args[2] = "stairs"
  /\ calls[1].args[1].ppi = Num(10)
  /\ Len(itemsBefore) = 2
  /\ itemsBefore[1].width = Num(20) /\ itemsBefore[1].height = Num(30)
  /\ FSub(Result[2].x, Result[1].x) = Num(50)
  /\ FSub(Result[2].y, Result[1].y) = Num(15)
  /\ FSub(MosaicStairs[2].x, MosaicStairs[1].x) = Num(16)
  /\ FSub(MosaicStairs[2].y, MosaicStairs[1].y) = Num(15)

C17_ZeroItems ==
  ( /\ items # 0 /\ calls # None
    /\ itemsBefore = <<>>
    /\ calls[1].op = "applyTemplate" => calls[1].args[2] \in TemplateNames )
  => /\ calls[1].err = "none"
     /\ calls[1].ret \in 1..Len(heap.arrays)
     /\ Result = <<>>

\* the 'big-center' template, which reads sorted[0], given no items: it
\* returns a new empty array
C17_Witness ==
  /\ items # 0 /\ calls # None
  /\ itemsBefore = <<>>
  /\ calls[1].op = "applyTemplate" /\ calls[1].args[2] = "big-center"
  /\ calls[1].ret # items
  /\ Result = <<>>

\* the step is the end of a handleSuggestSpot that moved the pieces
SuggestSucceeds == last'.op = "handleSuggestSpot" /\ last'.activePPI # None

\* b holds the pieces of a, each with its id, width and height, and every
\* two of them as far from each other as they were
SameShape(a, b) ==
  /\ Len(b) = Len(a)
  /\ \A i \in 1..Len(a) :
       /\ b[i].id = a[i].id
       /\ b[i].width = a[i].width
       /\ b[i].height = a[i].height
  /\ \A i, j \in 1..Len(a) :
       /\ FSub(b[i].x, b[j].x) = FSub(a[i].x, a[j].x)
       /\ FSub(b[i].y, b[j].y) = FSub(a[i].y, a[j].y)

SuggestSucceeded == last.op = "handleSuggestSpot" /\ last.activePPI # None

\* the anchor findPrimaryAnchor returned to a successful suggest-spot
TheAnchor == CHOOSE anchor \in Anchors : anchor # None

\* the bounding box of the pieces
GroupLeft(its)   == LeastOf([i \in 1..Len(its) |-> its[i].x], 1, PosInf)
GroupRight(its)  == GreatestOf([i \in 1..Len(its) |-> FAdd(its[i].x, its[i].width)], 1, NegInf)
GroupTop(its)    == LeastOf([i \in 1..Len(its) |-> its[i].y], 1, PosInf)
GroupBottom(its) == GreatestOf([i \in 1..Len(its) |-> FAdd(its[i].y, its[i].height)], 1, NegInf)
GroupHeight(its) == FSub(GroupBottom(its), GroupTop(its))
GroupCenterX(its) == FDiv(FAdd(GroupLeft(its), GroupRight(its)), Num(2))
GroupCenterY(its) == FDiv(FAdd(GroupTop(its), GroupBottom(its)), Num(2))

GapAboveAnchor(its) == FSub(TheAnchor.y, GroupBottom(its))

\* C20 as stated: after a successful suggest-spot the bottom edge of the
\* bounding box of the pieces is exactly 10 inches, at the effective ppi,
\* above the top edge of the anchor, and the group is centred across on the
\* anchor.
C20_TenInchesAbove ==
  SuggestSucceeded =>
    /\ GapAboveAnchor(artPieces) = FMul(Num(10), last.activePPI)
    /\ GroupCenterX(artPieces) = FAdd(TheAnchor.x, FDiv(TheAnchor.width, Num(2)))

\* a group moved above the couch, centred on it across, whose bottom edge is
\* 10 inches and half the height of the group above the couch
C20_Witness ==
  /\ SuggestSucceeded
  /\ GroupCenterX(artPieces) = FAdd(TheAnchor.x, FDiv(TheAnchor.width, Num(2)))
  /\ FGt(GroupHeight(artPieces), Num(0))
  /\ GapAboveAnchor(artPieces) =
       FAdd(FMul(Num(10), last.activePPI), FDiv(GroupHeight(artPieces), Num(2)))

\* the step ends a handleSuggestSpot that was invoked with no piece on the wall
EmptySuggestEnds == scan # None /\ scan' = None /\ scan.artPieces = <<>>

\* C21 as stated: a suggest-spot invoked with an empty piece set ends with
\* the alert 'No Art Found' and no other, whatever the detection returned,
\* and its last step changes neither the pieces nor ppi and floorY.
C21_EmptyAlwaysNoArt ==
  [][EmptySuggestEnds =>
       /\ last'.alerts = <<"No Art Found">>
       /\ artPieces' = artPieces
       /\ ppi' = ppi /\ floorY' = floorY]_vars

\* a suggest-spot on an empty wall with an image ended with the alert
\* 'No Furniture Detected'
C21_Witness ==
  /\ last.op = "handleSuggestSpot"
  /\ last.alerts = <<"No Furniture Detected">>
  /\ artPieces = <<>>
  /\ IsUrl(wallImage)

\* the save that made the room the last loadRoom opened, if the page made it
SaveOf(roomId) == { k \in 1..Len(saves) : saves[k].room = roomId }

\* C22 as stated: after loadRoom of a room this page saved, ppi, floorY and
\* the pieces are those the page held when it saved the room.
C22_RoundTrip ==
  last.op = "loadRoom" =>
    \A k \in SaveOf(last.room) :
      /\ ppi = saves[k].ppi
      /\ floorY = saves[k].floorY
      /\ artPieces = saves[k].artPieces

\* a room saved with a calibration, a floor line and pieces was opened
\* after the page was loaded again: no piece is on the wall, and ppi is
\* undefined
C22_Witness ==
  /\ last.op = "loadRoom"
  /\ \E k \in SaveOf(last.room) :
       /\ saves[k].ppi = Num(5) /\ saves[k].floorY = Num(432)
       /\ Len(saves[k].artPieces) = 2
       /\ db.rooms[last.room].referenceRatioPpi = Num(5)
  /\ artPieces = <<>>
  /\ ppi = Undefined
  /\ floorY = Num(0)

\* C23 as stated: the inches from the left and from the floor that
\* downloadGuide writes for a piece are the ones its live label shows.
C23_GuideEqualsLabel ==
  (last.op = "downloadGuide" /\ rendered # None) =>
    \A i \in 1..Len(artPieces) : last.guide[i] = LiveLabel(artPieces[i])

\* the guide of a calibrated wall shown at twice its size: the piece whose
\* label reads 15.0" from the left and 58.9" from the floor is written as
\* 30.0" and 41.0"
C23_Witness ==
  /\ last.op = "downloadGuide" /\ rendered # None
  /\ rendered.scale = Num(2) /\ ppi = Num(5)
  /\ artPieces # <<>>
  /\ LiveLabel(artPieces[1]) = [inchesFromLeft |-> <<"", 150>>, inchesFromFloor |-> <<"", 589>>]
  /\ last.guide[1] = [inchesFromLeft |-> <<"", 300>>, inchesFromFloor |-> <<"", 410>>]

\* the rectangles of p and q have a point in common that is on no edge
Overlap(p, q) ==
  /\ FLt(p.x, FAdd(q.x, q.width)) /\ FLt(q.x, FAdd(p.x, p.width))
  /\ FLt(p.y, FAdd(q.y, q.height)) /\ FLt(q.y, FAdd(p.y, p.height))

\* C24 as stated: after arrangeMosaic with variant % 3 = 1 on a non-empty
\* array the first piece of the result is one of the largest area, its top
\* edge at centerY and its centre across at centerX; the others lie above
\* centerY, by turns left and right of centerX; and no two of the others on
\* the same side overlap.
C24_Pyramid ==
  ( /\ items # 0 /\ calls # None
    /\ calls[1].op = "arrangeMosaic" /\ calls[1].args[2] % 3 = 1
    /\ itemsBefore # <<>> )
  => LET centerX == calls[1].args[1].startX
         centerY == calls[1].args[1].startY
         main == Result[1]
     IN /\ Len(Result) = Len(itemsBefore)
        /\ \A j \in 1..Len(itemsBefore) : ~FGt(Area(itemsBefore[j]), Area(main))
        /\ main.y = centerY
        /\ main.x = FSub(centerX, FDiv(main.width, Num(2)))
        /\ \A k \in 2..Len(Result) :
             /\ ~FGt(FAdd(Result[k].y, Result[k].height), centerY)
             /\ IF k % 2 = 0
                THEN ~FGt(FAdd(Result[k].x, Result[k].width), centerX)
                ELSE ~FLt(Result[k].x, centerX)
        /\ \A k, l \in 2..Len(Result) :
             (k < l /\ k % 2 = l % 2) => ~Overlap(Result[k], Result[l])

\* four pieces in the pyramid: the second and the fourth of the result are
\* both left of centerX with their bottom edges on the same line, and overlap
C24_Witness ==
  /\ items # 0 /\ calls # None
  /\ calls[1].op = "arrangeMosaic" /\ calls[1].args[2] = 1
  /\ Len(itemsBefore) = 4
  /\ Result[1].y = calls[1].args[1].startY
  /\ FAdd(Result[2].y, Result[2].height) = FAdd(Result[4].y, Result[4].height)
  /\ Overlap(Result[2], Result[4])

-----------------------------------------------------------------------------
(* Properties of the CalibrationModal.                                     *)

\* whether the values of want occur in seq, in this order
RECURSIVE InOrder(_, _)
InOrder(seq, want) ==
  IF want = <<>> THEN TRUE
  ELSE IF seq = <<>> THEN FALSE
  ELSE IF Head(seq) = Head(want) THEN InOrder(Tail(seq), Tail(want))
  ELSE InOrder(Tail(seq), want)

\* the steps taken since the method selection was last shown
RECURSIVE SinceSelection(_)
SinceSelection(seq) ==
  IF seq = <<>> \/ seq[Len(seq)] = "select-method" THEN <<>>
  ELSE Append(SinceSelection(SubSeq(seq, 1, Len(seq) - 1)), seq[Len(seq)])

\* C25: in every state of the modal, if step is verify, set-corners or
\* set-floor then realLengthInches parses to a number above 0; and every call
\* of onSave was made with such a length, after calibrate, verify, set-corners
\* and set-floor were visited in this order since the method was last chosen.
C25_WizardInvariant ==
  /\ step \in {"verify", "set-corners", "set-floor"}
       => FGt(parseFloat(realLengthInches), Num(0))
  /\ \A k \in 1..Len(onSaveCalls) :
       /\ FGt(parseFloat(onSaveCalls[k].length), Num(0))
       /\ InOrder(SinceSelection(trail), <<"calibrate", "verify", "set-corners", "set-floor">>)

\* onSave was called after the user first typed a length that was refused,
\* then one with a decimal point, and went back once on the way
C25_Witness ==
  /\ onSaveCalls # <<>>
  /\ onSaveCalls[1].length = <<".", "5">>
  /\ Len(trail) > 5

-----------------------------------------------------------------------------
(* Properties of the asynchronous handlers of the page.                    *)

\* C26: every handleSuggestSpot that was started comes to its end: the step
\* that ends it sets isScanningRoom to false and raises exactly one alert,
\* whatever the image lookup, the detection and the anchor selection gave,
\* and a scan that runs is always followed by a state where none runs.
C26_ScanEnds ==
  /\ [][(scan # None /\ scan' = None)
          => (~isScanningRoom' /\ Len(last'.alerts) = 1)]_vars
  /\ (isScanningRoom ~> ~isScanningRoom)

\* a scan ended with 'Scan Failed' after the user had left the wall view,
\* so that the image lookup found no element
C26_Witness ==
  /\ last.op = "handleSuggestSpot" /\ scan = None /\ ~isScanningRoom
  /\ last.alerts = <<"Scan Failed">>
  /\ ~hasStarted

\* C27 as stated: no update of the piece set is lost over an asynchronous
\* operation.  The step that ends an art upload adds one piece to the set as
\* it is then, and the step that ends a suggest-spot scan leaves the set as
\* it is then or moves its pieces as a group; what was dragged, resized,
\* nudged or deleted in between stays so.
C27_NoLostUpdate ==
  [][ /\ (upload # None /\ upload' = None)
          => /\ Len(artPieces') = Len(artPieces) + 1
             /\ SubSeq(artPieces', 1, Len(artPieces)) = artPieces
      /\ (scan # None /\ scan' = None)
          => (artPieces' = artPieces \/ SameShape(artPieces, artPieces')) ]_vars

\* an upload has ended and written a set made from an older one: a piece
\* deleted while the background was removed is on the wall again, before
\* the piece that was uploaded
C27_Witness ==
  /\ last.op = "handleArtProcessed" /\ last.overwrote
  /\ Len(artPieces) = 2
  /\ artPieces[1].id = 1

-----------------------------------------------------------------------------
(* Properties of ObjectDetection.                                          *)

\* the calls that are inside loadModel, between isLoading = true and finally
LoadsInFlight == {i \in 1..Len(tasks) : tasks[i].pc \in {"ready", "load"}}

\* the step ends call i of detect, made while a load was in flight, with []
ReturnsEmptyDuringLoad(i) ==
  /\ tasks[i].kind = "detect" /\ tasks[i].duringLoad
  /\ tasks[i].pc # "done"
  /\ tasks'[i].pc = "done" /\ tasks'[i].result = "[]"

\* C28 as stated: under any interleaving of calls of loadModel and detect the
\* model is loaded at most once and at most one load is in flight, and a
\* detect that starts while a load is in flight does not return [] while
\* that load is still in flight: it returns what the loaded model detects.
C28_LoadOnce ==
  /\ [](loads <= 1 /\ Cardinality(LoadsInFlight) <= 1)
  /\ [][\A i \in 1..Len(tasks) : ReturnsEmptyDuringLoad(i) => ~isLoading]_vars

\* a detect made while the load was in flight has returned [], and the load
\* it did not wait for has given the model since
C28_Witness ==
  /\ Len(tasks) >= 2
  /\ tasks[1].kind = "loadModel" /\ tasks[1].pc = "done"
  /\ tasks[2].kind = "detect" /\ tasks[2].duringLoad /\ tasks[2].result = "[]"
  /\ model = Loaded /\ loads = 1

-----------------------------------------------------------------------------
(* Properties of the wall photo and its calibration.                       *)

\* C29 as stated: once every onload callback of the wall uploads has run, in
\* whatever order, wallDimensions is the size of the image that is shown.
C29_DimensionsOfShown ==
  (loading = {} /\ IsUrl(wallImage)) => wallDimensions = ImageSize(wallImage)

\* two photos were uploaded one after the other and the onload of the first
\* ran last: the second is shown with the size of the first
C29_Witness ==
  /\ loading = {}
  /\ wallImage = <<"wallB">>
  /\ wallDimensions = ImageSize(<<"wallA">>)

\* C30 as stated: while no wall upload is pending and the modal is closed,
\* a calibration in use (ppi other than 0) was made for the wall image that
\* is shown, so that the ppi and floorY of an earlier photo are not in force
\* after a new upload whose modal was closed; and closing the modal changes
\* neither ppi nor floorY.
C30_CalibrationOfShown ==
  /\ []((loading = {} /\ ~isCalibrating /\ IsUrl(wallImage) /\ ppi # Num(0))
          => calibratedFor = wallImage)
  /\ [][last'.op = "onClose" => (ppi' = ppi /\ floorY' = floorY)]_vars

\* the first photo was calibrated, the second uploaded and its modal closed:
\* the second is shown with the ppi and floorY of the first
C30_Witness ==
  /\ last.op = "onClose" /\ ~isCalibrating /\ loading = {}
  /\ wallImage = <<"wallB">> /\ wallDimensions = ImageSize(<<"wallB">>)
  /\ calibratedFor = <<"wallA">>
  /\ ppi # Num(0)

====
